---- MODULE Spec2Model ----
(***************************************************************************)
(* Verification model of the translation/OCR orchestrator                  *)
(* (backend/app/translator.py, class ProductTranslator), of the way        *)
(* backend/app/main.py shares one orchestrator between requests, of the    *)
(* page scraper (backend/app/scraper.py, class IdusScraper), and of the    *)
(* services and endpoints of backend/app/main.py.                          *)
(*                                                                         *)
(* Text.  A Python str is a sequence of tokens.  An ordinary character is  *)
(* one token ("a", "b", " ").  The label prefixes that _translate_text     *)
(* removes and the four placeholder strings of the scraper are one token   *)
(* each: none of them is a proper prefix of another one, so                *)
(* str.startswith on the strings and on the token sequences agree.         *)
(*                                                                         *)
(* Time.  One tick is half a second (the limiter's delay is 6.5 s).  The   *)
(* code only ever uses time.time() - self._last_request_time, so the model *)
(* keeps that difference, `elapsed`, saturated at Horizon: every value     *)
(* >= _request_delay takes the same branch of _wait_for_rate_limit.        *)
(***************************************************************************)
EXTENDS Integers, Sequences, FiniteSets, TLC

VARIABLES
    \* ---- ProductTranslator fields
    client,          \* self.client: None or the genai client
    _initialized,    \* self._initialized
    _model_name,     \* self._model_name: None or the selected candidate
    elapsed,         \* time.time() - self._last_request_time, saturated
    \* ---- ProductTranslator.__init__ / _initialize_client
    api_key,         \* the constructor's argument: None, "" or a key
    ipc,             \* position in the constructor
    probeIdx,        \* index of the candidate the for-loop is at
    probeLog,        \* model and outcome of every probe made so far, in order
    api_key_leaked,  \* the local flag of _initialize_client
    \* ---- one request: translate_single_text or translate_product
    req,             \* the coroutine's position, arguments, locals and result
    \* ---- several requests sharing one orchestrator (main.py)
    co,              \* per coroutine: position and remaining sleep
    leaveGap,        \* `elapsed` as read when a coroutine last left the limiter
    \* ---- IdusScraper.scrape_product (scraper.py)
    page,            \* the rendered page: what each image channel can see
    scr,             \* the coroutine's position, locals and result
    scrl,            \* IdusScraper._full_scroll: position and locals
    \* ---- main.py
    svc,             \* the globals, the IdusScraper instances, the coroutines
                     \* inside initialize_services, the shutdown
    api              \* one endpoint request: position, locals and response

vars == <<client, _initialized, _model_name, elapsed,
          api_key, ipc, probeIdx, probeLog, api_key_leaked, req, co, leaveGap,
          page, scr, scrl, svc, api>>

translatorVars == <<client, _initialized, _model_name>>
initVars == <<api_key, ipc, probeIdx, probeLog, api_key_leaked>>
coVars == <<co, leaveGap>>
scraperVars == <<page, scr, scrl>>
mainVars == <<svc, api>>

None == "None"

(***************************************************************************)
(* Program constants                                                       *)
(***************************************************************************)
\* self._request_delay = 6.5 seconds, in ticks of half a second
_request_delay == 13
\* self._max_retries = 3
_max_retries == 3
\* wait_time = (attempt + 1) * 12 seconds, in ticks
BackoffUnit == 24
\* os.getenv("MAX_OCR_IMAGES", "10")
DefaultMaxOcr == 10
\* _ocr_image: len(text) < 5 is "no text"
MinOcrLen == 5
\* _process_images: only len(ocr_text) > 10 is translated
MinOcrTranslateLen == 10

\* Saturation point of the clocks: one tick past the delay.
Horizon == _request_delay + 1

model_candidates ==
    << "gemini-2.5-flash-preview-05-20", "gemini-2.5-flash", "gemini-2.0-flash",
       "gemini-2.0-flash-exp", "gemini-1.5-flash", "gemini-1.5-pro", "gemini-pro" >>

TargetLanguage == {"en", "ja"}

_get_language_name(lang) == IF lang = "ja" THEN "Japanese" ELSE "English"

Min(a, b) == IF a < b THEN a ELSE b
Max(a, b) == IF a > b THEN a ELSE b


(***************************************************************************)
(* Construction: ProductTranslator.__init__ and _initialize_client         *)
(***************************************************************************)
\* What one probe, generate_content(model=model_name, contents="Say OK"), can do:
\*   ok          a response whose text is non-empty
\*   empty       no response, or a response with empty text
\*   auth        an exception mentioning "leaked" or PERMISSION_DENIED
\*   quota       an exception mentioning 429 or RESOURCE_EXHAUSTED
\*   unavailable an exception mentioning 404 or "not found"
\*   other       any other exception
ProbeOutcomes == {"ok", "empty", "auth", "quota", "unavailable", "other"}

ApiKeys == {None, "", "key"}

\* The body of the for-loop for one probe outcome, a mutation: a blocked key is
\* treated like an exhausted quota and the loop goes on to the next candidate.
ProbeVerdictAuthContinues(o) ==
    CASE o = "ok" -> "select"
      [] OTHER -> "next"

\* A mutation: the probe's text is not looked at, any response selects the model.
ProbeVerdictAnyResponse(o) ==
    CASE o \in {"ok", "empty"} -> "select"
      [] o = "auth" -> "halt"
      [] OTHER -> "next"

\* The body of the for-loop for one probe outcome: select the model and return,
\* break out of the loop, or continue with the next candidate.
ProbeVerdict(o) ==
    CASE o = "ok" -> "select"
      [] o = "auth" -> "halt"
      [] OTHER -> "next"

\* __init__: the fields' defaults, then _initialize_client only with a truthy key.
Construct ==
    /\ ipc = "new"
    /\ ipc' = IF api_key \in {None, ""} THEN "done" ELSE "init_client"
    /\ UNCHANGED <<client, _initialized, _model_name, elapsed, api_key, probeIdx,
                   probeLog, api_key_leaked>>
    /\ UNCHANGED <<req, coVars, scraperVars, mainVars>>

\* genai.Client(api_key=api_key); an exception lands in the outer except.
CreateClient ==
    /\ ipc = "init_client"
    /\ \E created \in BOOLEAN :
         IF created
         THEN /\ client' = "genai.Client"
              /\ ipc' = "probing"
              /\ probeIdx' = 1
         ELSE /\ ipc' = "done"
              /\ UNCHANGED <<client, probeIdx>>
    /\ UNCHANGED <<_initialized, _model_name, elapsed, api_key, probeLog,
                   api_key_leaked>>
    /\ UNCHANGED <<req, coVars, scraperVars, mainVars>>

\* One iteration of `for model_name in model_candidates`.
Probe ==
    /\ ipc = "probing"
    /\ probeIdx <= Len(model_candidates)
    /\ \E o \in ProbeOutcomes :
         LET model_name == model_candidates[probeIdx]
             verdict == ProbeVerdict(o)
         IN  /\ probeLog' = Append(probeLog, [model |-> model_name, outcome |-> o])
             /\ CASE verdict = "select" ->
                       /\ _model_name' = model_name
                       /\ _initialized' = TRUE
                       /\ ipc' = "done"
                       /\ UNCHANGED <<probeIdx, api_key_leaked>>
                  [] verdict = "halt" ->
                       /\ api_key_leaked' = TRUE
                       /\ ipc' = "done"
                       /\ UNCHANGED <<probeIdx, _model_name, _initialized>>
                  [] OTHER ->
                       /\ probeIdx' = probeIdx + 1
                       /\ ipc' = IF probeIdx = Len(model_candidates)
                                 THEN "done" ELSE "probing"
                       /\ UNCHANGED <<_model_name, _initialized, api_key_leaked>>
    /\ UNCHANGED <<client, elapsed, api_key>>
    /\ UNCHANGED <<req, coVars, scraperVars, mainVars>>


(***************************************************************************)
(* Text                                                                    *)
(***************************************************************************)
\* The four placeholder strings of the scraper (romanised: the strings are
\* Korean), one token each.
NO_TITLE == "jemok eopseum"
NO_DESCRIPTION == "seolmyeong eopseum"
NO_PRICE == "gagyeok jeongbo eopseum"
NO_ARTIST == "jakgamyeong eopseum"

\* The list literal `text in [...]` is tested against.
Placeholders == {<<NO_TITLE>>, <<NO_DESCRIPTION>>, <<NO_PRICE>>, <<NO_ARTIST>>}

RECURSIVE LStrip(_)
LStrip(s) == IF s # <<>> /\ Head(s) = " " THEN LStrip(Tail(s)) ELSE s

RECURSIVE RStrip(_)
RStrip(s) ==
    IF s # <<>> /\ s[Len(s)] = " " THEN RStrip(SubSeq(s, 1, Len(s) - 1)) ELSE s

\* str.strip()
Strip(s) == RStrip(LStrip(s))

\* prefixes_to_remove, in the order of the list literal ("beonyeok:" is the
\* Korean label, romanised).
prefixes_to_remove(lang) ==
    << IF lang = "English" THEN "English:" ELSE "Japanese:",
       IF lang = "English" THEN "English Translation:" ELSE "Japanese Translation:",
       "Translation:", "beonyeok:", "Japanese:", "English:",
       "Japanese Translation:", "English Translation:" >>

\* for prefix in prefixes_to_remove: if result.startswith(prefix):
\*     result = result[len(prefix):].strip()
RECURSIVE RemovePrefixes(_, _, _)
RemovePrefixes(result, prefixes, i) ==
    IF i > Len(prefixes) THEN result
    ELSE IF result # <<>> /\ Head(result) = prefixes[i]
         THEN RemovePrefixes(Strip(Tail(result)), prefixes, i + 1)
         ELSE RemovePrefixes(result, prefixes, i + 1)

\* A mutation of the early returns: the sentinels are not looked for.
SkipBlankOnly(t) == t = <<>> \/ Strip(t) = <<>>

\* The early returns of _translate_text_with_retry: blank or placeholder text.
Skip(t) == t = <<>> \/ Strip(t) = <<>> \/ t \in Placeholders

(***************************************************************************)
(* The external model                                                      *)
(***************************************************************************)
\* What one generate_content call can do: a response with text, a response
\* without text, an exception whose message mentions 429 or RESOURCE_EXHAUSTED
\* (throttling), any other exception.
CallOutcomes(pool) ==
    {[kind |-> "ok", text |-> t] : t \in pool}
      \cup {[kind |-> k, text |-> <<>>] : k \in {"empty", "throttle", "error"}}

\* self.client.models.generate_content(model=self._model_name, ...).  With
\* self.client None the attribute access raises AttributeError; with no model
\* selected the request cannot be built and the SDK raises before anything is
\* sent.  Neither message mentions 429 or RESOURCE_EXHAUSTED.
generate_content(o) ==
    IF client = None \/ _model_name = None
    THEN [kind |-> "error", text |-> <<>>]
    ELSE o

\* _translate_text once generate_content has returned `out` (kind ok or empty).
_translate_text(t, lang, out) ==
    IF out.kind = "ok"
    THEN RemovePrefixes(Strip(out.text),
                        prefixes_to_remove(_get_language_name(lang)), 1)
    ELSE t

\* A mutation of the retry loop: a failed call gives an empty string back, not
\* the text.
TextRetryStepDropsText(att, out, t, lang) ==
    CASE out.kind \in {"ok", "empty"} ->
           [do |-> "return", value |-> _translate_text(t, lang, out), sleep |-> 0]
      [] out.kind = "throttle" ->
           [do |-> IF att + 1 < _max_retries THEN "retry" ELSE "return",
            value |-> t, sleep |-> (att + 1) * BackoffUnit]
      [] OTHER ->
           [do |-> "return", value |-> <<>>, sleep |-> 0]

\* A mutation of the retry loop: one attempt too few.
TextRetryStepShort(att, out, t, lang) ==
    CASE out.kind \in {"ok", "empty"} ->
           [do |-> "return", value |-> _translate_text(t, lang, out), sleep |-> 0]
      [] out.kind = "throttle" ->
           [do |-> IF att + 1 < _max_retries - 1 THEN "retry" ELSE "return",
            value |-> t, sleep |-> (att + 1) * BackoffUnit]
      [] OTHER ->
           [do |-> "return", value |-> t, sleep |-> 0]

\* A mutation of the retry loop: every exception is retried, as throttling is.
TextRetryStepRetriesAll(att, out, t, lang) ==
    CASE out.kind \in {"ok", "empty"} ->
           [do |-> "return", value |-> _translate_text(t, lang, out), sleep |-> 0]
      [] OTHER ->
           [do |-> IF att + 1 < _max_retries THEN "retry" ELSE "return",
            value |-> t, sleep |-> (att + 1) * BackoffUnit]

\* One pass of the loop body of _translate_text_with_retry, attempt `att`
\* (0-based, as range() counts): return a value, or sleep and go round again.
\* After the last throttled attempt the loop still sleeps, then falls through
\* to `return text`.
TextRetryStep(att, out, t, lang) ==
    CASE out.kind \in {"ok", "empty"} ->
           [do |-> "return", value |-> _translate_text(t, lang, out), sleep |-> 0]
      [] out.kind = "throttle" ->
           [do |-> IF att + 1 < _max_retries THEN "retry" ELSE "return",
            value |-> t, sleep |-> (att + 1) * BackoffUnit]
      [] OTHER ->
           [do |-> "return", value |-> t, sleep |-> 0]


(***************************************************************************)
(* Time                                                                    *)
(***************************************************************************)
Sat(n) == Min(n, Horizon)

\* _wait_for_rate_limit: the time slept for `elapsed` = e; on return
\* self._last_request_time = time.time().
WaitTime(e) == IF e < _request_delay THEN _request_delay - e ELSE 0

\* How long one generate_content call can block, in ticks.
MaxCallTicks == 1
CallTicks == 1 .. MaxCallTicks

\* How long one image fetch can take: no time, or longer than the delay.
FetchTicks == {0, Horizon}

\* client.get(image_url): the bytes, a status other than 200, an exception.
FetchOutcomes == {"ok", "non200", "error"}

(***************************************************************************)
(* Images and records                                                      *)
(***************************************************************************)
\* An image URL: the asset, and the size it declares as "_<size>." or as
\* "/<size>/" (form "none": no such part).
\* r'_([5-9]\d{2}|[1-9]\d{3})\.' and r'/([5-9]\d{2}|[1-9]\d{3})/': three digits
\* from 500, or four digits.
HighRes(img) == img.form \in {"suffix", "path"} /\ img.size \in 500 .. 9999

RECURSIVE SelectSeq2(_, _)
SelectSeq2(s, keepHigh) ==
    IF s = <<>> THEN <<>>
    ELSE IF HighRes(Head(s)) = keepHigh
         THEN <<Head(s)>> \o SelectSeq2(Tail(s), keepHigh)
         ELSE SelectSeq2(Tail(s), keepHigh)

\* _prioritize_high_res_images: high_res + normal, each in list order.
_prioritize_high_res_images(images) ==
    SelectSeq2(images, TRUE) \o SelectSeq2(images, FALSE)

\* sorted_images[:max_ocr]
Take(s, n) == SubSeq(s, 1, Min(n, Len(s)))

\* ImageText(image_url, original_text, translated_text, order_index, y_position)
ImageText(url, original, translated, i) ==
    [image_url |-> url, original_text |-> original, translated_text |-> translated,
     order_index |-> i, y_position |-> i * 100]

RECURSIVE InsertByOrderIndex(_, _)
InsertByOrderIndex(e, s) ==
    IF s = <<>> THEN <<e>>
    ELSE IF e.order_index < Head(s).order_index
         THEN <<e>> \o s
         ELSE <<Head(s)>> \o InsertByOrderIndex(e, Tail(s))

\* results.sort(key=lambda x: x.order_index): a stable sort.
RECURSIVE SortByOrderIndex(_)
SortByOrderIndex(s) ==
    IF s = <<>> THEN <<>>
    ELSE InsertByOrderIndex(s[Len(s)], SortByOrderIndex(SubSeq(s, 1, Len(s) - 1)))

\* TranslatedProduct(original, translated_title, ...)
TranslatedProduct(p, title, description, options, image_texts, lang) ==
    [original |-> p, translated_title |-> title,
     translated_description |-> description, translated_options |-> options,
     translated_image_texts |-> image_texts, target_language |-> lang]

\* _ocr_image once the vision call has returned `out` (kind ok or empty):
\* the stripped text, or None (here <<>>: `if ocr_text and ...` treats both alike)
\* for NO_TEXT and for fewer than 5 characters.
OcrText(out) ==
    IF out.kind = "ok"
    THEN LET t == Strip(out.text)
         IN  IF t = <<"NO_TEXT">> \/ Len(t) < MinOcrLen THEN <<>> ELSE t
    ELSE <<>>

\* One pass of the loop body of _ocr_image_with_retry, attempt `att`: throttling
\* sleeps and goes round again (None after the last attempt), any other
\* exception is raised again.
OcrRetryStep(att, out) ==
    CASE out.kind \in {"ok", "empty"} ->
           [do |-> "return", value |-> OcrText(out), sleep |-> 0]
      [] out.kind = "throttle" ->
           [do |-> IF att + 1 < _max_retries THEN "retry" ELSE "return",
            value |-> <<>>, sleep |-> (att + 1) * BackoffUnit]
      [] OTHER ->
           [do |-> "raise", value |-> <<>>, sleep |-> 0]


(***************************************************************************)
(* Inputs                                                                  *)
(***************************************************************************)
MaxTextLen == 2
MaxRespLen == 2
MaxImages == 2

SeqsUpTo(S, lo, hi) == UNION {[1 .. n -> S] : n \in lo .. hi}

\* Texts handed to translate_single_text: blank, padded, plain, placeholders.
Texts == SeqsUpTo({"a", " "}, 0, MaxTextLen) \cup Placeholders

\* response.text of a translation call, when it is non-empty.
Responses ==
    SeqsUpTo({"a", " ", "Translation:", "beonyeok:", "English:", "Japanese:",
              "English Translation:", "Japanese Translation:"}, 1, MaxRespLen)

\* The responses drawn inside a translate_product run.
ProductResponses == {<<"b">>, <<"Translation:">>}

Chars(n) == [i \in 1 .. n |-> "a"]

\* response.text of a vision call: the NO_TEXT answer, and texts around the two
\* length thresholds.
OcrResponses ==
    {<<"NO_TEXT">>, Chars(MinOcrLen - 1), Chars(MinOcrTranslateLen),
     <<" ">> \o Chars(MinOcrTranslateLen + 1)}

ImagePool ==
    {[id |-> 1, size |-> 0, form |-> "none"],
     [id |-> 2, size |-> 720, form |-> "suffix"]}

\* The records handed to translate_product: records whose texts vary and that
\* have no image, and records whose images vary and whose title alone is text.
Products ==
    [title : {<<"a">>, <<NO_TITLE>>},
     description : {<<"a", "a">>, <<>>},
     options : {<<>>, <<[name |-> <<"a">>, values |-> << <<"a">> >>]>>},
     detail_images : {<<>>}]
      \cup [title : {<<"a">>, <<NO_TITLE>>},
            description : {<<>>},
            options : {<<>>},
            detail_images : SeqsUpTo(ImagePool, 0, MaxImages)]

\* MAX_OCR_IMAGES in the environment: unset (the default), or set to 1.
MaxOcrValues == {1, DefaultMaxOcr}

(***************************************************************************)
(* One request                                                             *)
(***************************************************************************)
NoProduct == [title |-> <<>>, description |-> <<>>, options |-> <<>>,
              detail_images |-> <<>>]

IdleReq ==
    [pc |-> "idle", op |-> None, product_data |-> NoProduct,
     target_language |-> "en", max_ocr |-> DefaultMaxOcr, phase |-> None,
     text |-> <<>>, attempt |-> 0, callLog |-> <<>>,
     translated_title |-> <<>>, translated_description |-> <<>>,
     translated_options |-> <<>>, optIdx |-> 0, valIdx |-> 0, name |-> <<>>,
     values |-> <<>>, image_urls |-> <<>>, idx |-> 0, results |-> <<>>,
     ocrLog |-> <<>>, returned |-> <<>>, raised |-> FALSE,
     sinceCall |-> Horizon, lastGap |-> -1, waited |-> FALSE]

\* Entry of _translate_text_with_retry(t, target_language, context).
EnterText(r, ph, t) ==
    [r EXCEPT !.pc = "text", !.phase = ph, !.text = t, !.attempt = 0,
              !.callLog = <<>>]

\* The end of translate_product: the sort that ends _process_images, then
\* the TranslatedProduct.
Finish(r) ==
    LET sorted == SortByOrderIndex(r.results)
    IN  [r EXCEPT !.pc = "done", !.results = sorted,
                  !.returned = TranslatedProduct(r.product_data, r.translated_title,
                                                 r.translated_description,
                                                 r.translated_options, sorted,
                                                 r.target_language)]

\* The next iteration of `for idx, url in enumerate(image_urls)`.
NextImage(r) ==
    IF r.idx + 1 < Len(r.image_urls)
    THEN [r EXCEPT !.pc = "ocr", !.idx = @ + 1, !.attempt = 0, !.callLog = <<>>]
    ELSE Finish(r)

\* A mutation of the image loop: the try encloses the whole loop, so the first
\* exception ends the batch.
SkipImageEndsBatch(r) == Finish(r)

\* A mutation of the image loop: no except around one image, so the exception
\* of a fetch or of a call leaves translate_product.
SkipImageRaises(r) == [r EXCEPT !.pc = "done", !.raised = TRUE]

\* `except Exception` inside the image loop: the image is skipped.
SkipImage(r) == NextImage(r)

\* Step 4 of translate_product up to the first image of _process_images.
EnterImages(r) ==
    LET sorted_images == _prioritize_high_res_images(r.product_data.detail_images)
        urls == Take(sorted_images, r.max_ocr)
        r1 == [r EXCEPT !.image_urls = urls, !.idx = 0, !.attempt = 0,
                        !.callLog = <<>>, !.results = <<>>]
    IN  IF urls = <<>> THEN Finish(r1) ELSE [r1 EXCEPT !.pc = "ocr"]

\* _translate_options: the next option once option `optIdx` is appended.
NextOption(r) ==
    LET options == r.product_data.options
    IN  IF r.optIdx < Len(options)
        THEN EnterText([r EXCEPT !.optIdx = @ + 1, !.valIdx = 0, !.values = <<>>],
                       "option", options[r.optIdx + 1].name)
        ELSE EnterImages(r)

\* Step 3 of translate_product up to the first option name.
EnterOptions(r) ==
    NextOption([r EXCEPT !.optIdx = 0, !.translated_options = <<>>])

\* _translate_options once the name (valIdx 0) or a value came back as v.
AfterOptionText(r, v) ==
    LET opt == r.product_data.options[r.optIdx]
        r1 == IF r.valIdx = 0 THEN [r EXCEPT !.name = v]
                              ELSE [r EXCEPT !.values = Append(@, v)]
    IN  IF r.valIdx < Len(opt.values)
        THEN EnterText([r1 EXCEPT !.valIdx = @ + 1], "option",
                       opt.values[r.valIdx + 1])
        ELSE NextOption([r1 EXCEPT !.translated_options =
                            Append(@, [name |-> r1.name, values |-> r1.values])])

\* What the caller of _translate_text_with_retry does with its value v.
Deliver(r, v) ==
    CASE r.phase = "single" -> [r EXCEPT !.pc = "done", !.returned = v]
      [] r.phase = "title" ->
           EnterText([r EXCEPT !.translated_title = v], "description",
                     r.product_data.description)
      [] r.phase = "description" ->
           EnterOptions([r EXCEPT !.translated_description = v])
      [] r.phase = "option" -> AfterOptionText(r, v)
      [] OTHER ->
           NextImage([r EXCEPT !.results =
                         Append(@, ImageText(r.image_urls[r.idx + 1], r.text, v,
                                             r.idx))])

\* Where an exception raised inside _translate_text_with_retry would land: the
\* except of _translate_options (the option is kept as it was), the except of
\* the image loop (the image is skipped), else the caller of the entry point.
Propagate(r) ==
    CASE r.phase = "option" ->
           NextOption([r EXCEPT !.translated_options =
                          Append(@, r.product_data.options[r.optIdx])])
      [] r.phase = "ocr" -> SkipImage(r)
      [] OTHER -> [r EXCEPT !.pc = "done", !.raised = TRUE]


\* translate_single_text(t, lang): _translate_text_with_retry with the
\* description context.
translate_single_text ==
    /\ ipc = "done"
    /\ req.pc = "idle"
    /\ \E t \in Texts, lang \in TargetLanguage :
         req' = EnterText([IdleReq EXCEPT !.op = "single", !.target_language = lang],
                          "single", t)
    /\ UNCHANGED <<translatorVars, elapsed, initVars, coVars, scraperVars, mainVars>>

\* The guard at the head of translate_product.
Uninitialized == ~_initialized \/ client = None

\* translate_product(p, lang) up to its first await: the passthrough record of
\* an uninitialized orchestrator, else the title's translation is entered.
translate_product ==
    /\ ipc = "done"
    /\ req.pc = "idle"
    /\ \E p \in Products, lang \in TargetLanguage, m \in MaxOcrValues :
         LET r == [IdleReq EXCEPT !.op = "product", !.product_data = p,
                                  !.target_language = lang, !.max_ocr = m]
         IN  req' = IF Uninitialized
                    THEN [r EXCEPT !.pc = "done",
                                   !.returned = TranslatedProduct(p, p.title,
                                                    p.description, p.options, <<>>,
                                                    lang)]
                    ELSE EnterText(r, "title", p.title)
    /\ UNCHANGED <<translatorVars, elapsed, initVars, coVars, scraperVars, mainVars>>

\* _translate_text_with_retry, the two early returns: no call, no wait.
TextSkip ==
    /\ req.pc = "text"
    /\ Skip(req.text)
    /\ req' = Deliver(req, req.text)
    /\ UNCHANGED <<translatorVars, elapsed, initVars, coVars, scraperVars, mainVars>>

\* _translate_text_with_retry, one pass of the loop: the rate limiter, the
\* model call (response drawn from `pool`, blocking for d ticks), and what the
\* loop does with the outcome.
TextAttempt(pool) ==
    /\ req.pc = "text"
    /\ ~Skip(req.text)
    /\ req.attempt < _max_retries
    /\ \E o \in CallOutcomes(pool), d \in CallTicks :
         LET w == WaitTime(elapsed)
             out == generate_content(o)
             step == TextRetryStep(req.attempt, out, req.text, req.target_language)
             after == Sat(d + step.sleep)
             r1 == [req EXCEPT !.callLog = Append(@, out.kind),
                               !.lastGap = Sat(req.sinceCall + w),
                               !.sinceCall = after, !.waited = TRUE]
         IN  /\ elapsed' = after
             /\ req' = CASE step.do = "retry" -> [r1 EXCEPT !.attempt = @ + 1]
                         [] step.do = "return" -> Deliver(r1, step.value)
                         [] OTHER -> Propagate(r1)
    /\ UNCHANGED <<translatorVars, initVars, coVars, scraperVars, mainVars>>

\* _process_images, one pass of _ocr_image_with_retry for image_urls[idx]: on
\* the first pass the rate limiter; then the fetch (f ticks), the vision call
\* (d ticks) and what the two loops do with the outcome.
OcrAttempt ==
    /\ req.pc = "ocr"
    /\ req.attempt < _max_retries
    /\ \E fo \in FetchOutcomes, f \in FetchTicks :
         LET first == req.attempt = 0
             url == req.image_urls[req.idx + 1]
             w == IF first THEN WaitTime(elapsed) ELSE 0
             \* _ocr_image returns None before any fetch when there is no client
             ft == IF client = None \/ _model_name = None THEN 0 ELSE f
             e1 == Sat((IF first THEN 0 ELSE elapsed) + ft)
             sc1 == Sat(req.sinceCall + w + ft)
             r0 == [req EXCEPT !.ocrLog = IF first THEN Append(@, url) ELSE @,
                               !.waited = TRUE]
         IN  IF client = None \/ _model_name = None \/ fo # "ok"
             THEN \* no model call: None (no client, status not 200), or an
                  \* exception of the fetch, which _ocr_image_with_retry
                  \* raises again
                  /\ elapsed' = e1
                  /\ req' = IF fo = "error" /\ client # None /\ _model_name # None
                            THEN SkipImage([r0 EXCEPT !.sinceCall = sc1])
                            ELSE NextImage([r0 EXCEPT !.sinceCall = sc1])
             ELSE \E o \in CallOutcomes(OcrResponses), d \in CallTicks :
                  LET out == generate_content(o)
                      step == OcrRetryStep(req.attempt, out)
                      after == Sat(d + step.sleep)
                      r1 == [r0 EXCEPT !.callLog = Append(@, out.kind),
                                       !.lastGap = sc1, !.sinceCall = after]
                  IN  /\ elapsed' = Sat(e1 + after)
                      /\ req' =
                           CASE step.do = "retry" -> [r1 EXCEPT !.attempt = @ + 1]
                             [] step.do = "return"
                                  /\ Len(step.value) > MinOcrTranslateLen ->
                                  EnterText(r1, "ocr", step.value)
                             [] step.do = "return"
                                  /\ Len(step.value) <= MinOcrTranslateLen ->
                                  NextImage(r1)
                             [] OTHER -> SkipImage(r1)
    /\ UNCHANGED <<translatorVars, initVars, coVars, scraperVars, mainVars>>

\* The entry point has returned; the orchestrator lives on, for dt ticks
\* before the next request.
Respond ==
    /\ req.pc = "done"
    /\ req' = IdleReq
    /\ \E dt \in {0, Horizon} : elapsed' = Sat(elapsed + dt)
    /\ UNCHANGED <<translatorVars, initVars, coVars, scraperVars, mainVars>>


(***************************************************************************)
(* Several requests on one orchestrator.  main.py holds one global         *)
(* ProductTranslator; every endpoint awaits translator.translate_product   *)
(* on the same event loop.  A coroutine runs until its next await          *)
(* (asyncio.sleep); generate_content is a blocking call and holds the loop.*)
(* Each coroutine makes the calls of `jobs` texts, one after the other.    *)
(***************************************************************************)
Coroutines == {1, 2}
MaxJobs == 2

\* What the retry loop makes of a call: the text is finished, or throttled.
CoOutcomes == {"finished", "throttle"}

Runnable(c) == c.pc = "start" \/ (c.pc \in {"limiter", "backoff"} /\ c.remain = 0)

\* The other coroutines' timers while coroutine r holds the loop for d ticks.
Pass(f, r, d) ==
    [q \in Coroutines |->
        IF q # r /\ f[q].pc \in {"limiter", "backoff"}
        THEN [f[q] EXCEPT !.remain = Max(0, @ - d)]
        ELSE f[q]]

\* After a text is finished: the next text's attempt, or the end.
CoNextJob(c) ==
    IF c.jobs > 1 THEN [c EXCEPT !.jobs = @ - 1, !.attempt = 0, !.pc = "enter"]
    ELSE [c EXCEPT !.jobs = 0, !.pc = "done"]

\* The end of _wait_for_rate_limit and what follows up to the next await, for
\* coroutine r in position c: self._last_request_time = time.time(), the
\* blocking model call (d ticks, outcome o), then the backoff sleep or, the
\* text finished, the next text's limiter sleep (a call is shorter than the
\* delay, so the limiter sleeps).
LeaveAndCall(r, c, o, d) ==
    LET c1 == IF o = "throttle"
              THEN [c EXCEPT !.pc = "backoff", !.attempt = @ + 1,
                             !.remain = (c.attempt + 1) * BackoffUnit]
              ELSE LET n == CoNextJob(c)
                   IN  IF n.pc = "done" THEN n
                       ELSE [n EXCEPT !.pc = "limiter", !.remain = WaitTime(d)]
    IN  /\ leaveGap' = elapsed
        /\ elapsed' = d
        /\ co' = [Pass(co, r, d) EXCEPT ![r] = c1]

\* Coroutine r is started, or has slept its backoff, and enters
\* _wait_for_rate_limit: it sleeps when elapsed < _request_delay, and goes
\* straight on to the call otherwise.
CoEnter(r) ==
    /\ co[r].pc \in {"start", "backoff"}
    /\ Runnable(co[r])
    /\ LET ranOut == co[r].pc = "backoff" /\ co[r].attempt >= _max_retries
           c == IF ranOut THEN CoNextJob(co[r]) ELSE co[r]
       IN  CASE c.pc = "done" ->
                  \* the last text's loop ran out: translate_product returns
                  /\ co' = [co EXCEPT ![r] = c]
                  /\ UNCHANGED <<elapsed, leaveGap>>
             [] c.pc # "done" /\ WaitTime(elapsed) > 0 ->
                  /\ co' = [co EXCEPT ![r] = [c EXCEPT !.pc = "limiter",
                                                       !.remain = WaitTime(elapsed)]]
                  /\ UNCHANGED <<elapsed, leaveGap>>
             [] OTHER ->
                  \E o \in CoOutcomes, d \in CallTicks : LeaveAndCall(r, c, o, d)
    /\ UNCHANGED <<translatorVars, initVars, req, scraperVars, mainVars>>

\* Coroutine r wakes from the sleep of _wait_for_rate_limit.
CoLeave(r) ==
    /\ co[r].pc = "limiter"
    /\ Runnable(co[r])
    /\ \E o \in CoOutcomes, d \in CallTicks : LeaveAndCall(r, co[r], o, d)
    /\ UNCHANGED <<translatorVars, initVars, req, scraperVars, mainVars>>

\* The loop is idle (no timer is due): one tick passes.
Tick ==
    /\ \E r \in Coroutines : co[r].pc \in {"limiter", "backoff"}
    /\ \A r \in Coroutines : co[r].pc \in {"limiter", "backoff"} => co[r].remain > 0
    /\ elapsed' = Sat(elapsed + 1)
    /\ co' = [r \in Coroutines |->
                IF co[r].pc \in {"limiter", "backoff"}
                THEN [co[r] EXCEPT !.remain = @ - 1] ELSE co[r]]
    /\ UNCHANGED <<translatorVars, initVars, req, leaveGap, scraperVars, mainVars>>


(***************************************************************************)
(* The page scraper (scraper.py): images.                                  *)
(* An image URL is kept by the parts of it the code looks at: whether it   *)
(* is on the image CDN, the file id that r'files/([a-f0-9]+)' finds (0:    *)
(* no match), the size that r'_(\d+)\.' finds (0: no match), and `mark`,   *)
(* the one exclusion substring it contains ("": none).                     *)
(***************************************************************************)
ImageUrl(host, id, size, mark) ==
    [host |-> host, id |-> id, size |-> size, mark |-> mark]

\* 'image.idus.com' in low
IMAGE_CDN == "image.idus.com"

\* result[:15]
FilterCap == 15
\* result[:20]
StrictCap == 20
\* size = ... if size_match else 9999
OriginalSize == 9999
\* if size_match and size < 300
MinSize == 300
\* if size < 400
StrictMinSize == 400

\* _filter_images: small_size_patterns, by the size they name
small_size_patterns == {50, 100, 150, 200, 250}

\* _filter_images: exclude_patterns
exclude_patterns ==
    {"/icon", "/sprite", "/logo", "/avatar", "/badge", "/emoji", "/button",
     "/arrow", "/profile", "facebook.", "twitter.", "instagram.", "kakao.",
     "naver.", "google.com", "apple.com", "/escrow", "/membership", "/banner",
     "/thumbnail", "/thumb_", "_thumb", "/review/", "/comment/", "/artist/",
     "/shop/", "data:image"}

\* _filter_images_strict: exclude_patterns, the substrings and the sizes
strict_exclude_patterns ==
    {"/profile", "/avatar", "/icon", "/badge", "/thumb_", "/thumbnail", "_thumb",
     "/review", "/comment", "/artist/", "/shop/"}
strict_size_patterns == {50, 100, 150, 200, 250, 300}

\* _extract_images_with_position, collectImages: the substrings and the sizes
\* that the page script drops.
collect_exclude_patterns ==
    {"/profile", "/avatar", "/icon", "/badge", "/thumb_", "/review/"}
collect_size_patterns == {50, 100, 150, 200}

\* result.remove(old_url): the first occurrence.
RECURSIVE Remove(_, _)
Remove(s, e) ==
    IF s = <<>> THEN <<>>
    ELSE IF Head(s) = e THEN Tail(s) ELSE <<Head(s)>> \o Remove(Tail(s), e)

\* The loop body of _filter_images for one candidate: exact duplicates, SVG,
\* small sizes, exclusion substrings and other hosts are dropped; a URL
\* without file id is appended; of the variants of one file id the larger one
\* replaces the smaller one, at the end of the list.
FilterStep(acc, img) ==
    IF img \in acc.seen_urls THEN acc
    ELSE LET a1 == [acc EXCEPT !.seen_urls = @ \cup {img}]
             size == IF img.size # 0 THEN img.size ELSE OriginalSize
         IN  IF \/ img.mark = ".svg"
                \/ img.size \in small_size_patterns
                \/ img.mark \in exclude_patterns
                \/ img.host # IMAGE_CDN
             THEN a1
             ELSE IF img.id = 0
             THEN [a1 EXCEPT !.result = Append(@, img)]
             ELSE IF img.size # 0 /\ size < MinSize
             THEN a1
             ELSE IF img.id \in DOMAIN a1.seen_file_ids
             THEN IF size > a1.seen_file_ids[img.id].size
                  THEN [a1 EXCEPT
                          !.result = Append(Remove(@, a1.seen_file_ids[img.id].url),
                                            img),
                          !.seen_file_ids =
                              [@ EXCEPT ![img.id] = [size |-> size, url |-> img]]]
                  ELSE a1
             ELSE [a1 EXCEPT
                     !.seen_file_ids = (img.id :> [size |-> size, url |-> img]) @@ @,
                     !.result = Append(@, img)]

RECURSIVE FilterLoop(_, _)
FilterLoop(acc, images) ==
    IF images = <<>> THEN acc
    ELSE FilterLoop(FilterStep(acc, Head(images)), Tail(images))

\* A mutation of _filter_images: the list is returned without a cap.
_filter_images_uncapped(images) ==
    FilterLoop([result |-> <<>>, seen_urls |-> {}, seen_file_ids |-> <<>>],
               images).result

\* _filter_images(images)
_filter_images(images) ==
    Take(FilterLoop([result |-> <<>>, seen_urls |-> {}, seen_file_ids |-> <<>>],
                    images).result, FilterCap)

\* The loop body of _filter_images_strict for one candidate: only CDN URLs
\* with a file id; a file id seen before is skipped; sizes under 400 and
\* exclusion substrings are dropped.
StrictStep(acc, img) ==
    IF \/ img.host # IMAGE_CDN
       \/ img.id = 0
       \/ img.id \in acc.seen_file_ids
       \/ (img.size # 0 /\ img.size < StrictMinSize)
       \/ img.mark \in strict_exclude_patterns
       \/ img.size \in strict_size_patterns
    THEN acc
    ELSE [result |-> Append(acc.result, img),
          seen_file_ids |-> acc.seen_file_ids \cup {img.id}]

RECURSIVE StrictLoop(_, _)
StrictLoop(acc, images) ==
    IF images = <<>> THEN acc
    ELSE StrictLoop(StrictStep(acc, Head(images)), Tail(images))

\* _filter_images_strict(images, page)
_filter_images_strict(images) ==
    Take(StrictLoop([result |-> <<>>, seen_file_ids |-> {}], images).result,
         StrictCap)

\* collectImages of _extract_images_with_position over the img elements in
\* position order: the element's URL must contain 'idus' (every URL here
\* does), is taken once, and is dropped on the script's substrings and sizes.
RECURSIVE collectImages(_, _)
collectImages(imgs, seen) ==
    IF imgs = <<>> THEN <<>>
    ELSE LET url == Head(imgs)
         IN  IF \/ url \in seen
                \/ url.mark \in collect_exclude_patterns
                \/ url.size \in collect_size_patterns
             THEN collectImages(Tail(imgs), seen)
             ELSE <<url>> \o collectImages(Tail(imgs), seen \cup {url})

(***************************************************************************)
(* Pages, as far as images go                                              *)
(***************************************************************************)
MaxCandidates == 3
MaxFill == 21

\* The URLs the pages are made of: three sizes of file 1, file 2 without a
\* size, a CDN URL outside files/, a URL of another idus host, an icon.
UrlPool ==
    {ImageUrl(IMAGE_CDN, 1, 100, ""), ImageUrl(IMAGE_CDN, 1, 400, ""),
     ImageUrl(IMAGE_CDN, 1, 800, ""), ImageUrl(IMAGE_CDN, 2, 0, ""),
     ImageUrl(IMAGE_CDN, 0, 0, ""), ImageUrl("cdn.idus.kr", 0, 0, ""),
     ImageUrl(IMAGE_CDN, 3, 0, "/icon")}

\* k more files, one URL each, to fill a list up to its cap and beyond.
\* Their file ids lie above every file id of the pool.
FillBase == FilterCap + StrictCap
Fill(k) == [i \in 1 .. k |-> ImageUrl(IMAGE_CDN, FillBase + i, 0, "")]
FillCounts == {FilterCap, MaxFill}
Range(s) == {s[i] : i \in DOMAIN s}

\* A page: the img elements of the detail area in position order (top to
\* bottom, left to right), the image responses the network saw, the URLs in
\* the raw markup, the background-image URLs.
ChannelUrl(id) == ImageUrl(IMAGE_CDN, id, 0, "")
ImagePages ==
    \* images in the detail area
    {[imgs |-> s, network |-> {}, markup |-> {}, background |-> {}] :
        s \in SeqsUpTo(UrlPool, 0, MaxCandidates)}
    \cup {[imgs |-> s \o Fill(k), network |-> {}, markup |-> {},
           background |-> {}] :
            s \in SeqsUpTo(UrlPool, 0, 1), k \in FillCounts}
    \* no image in the detail area: the network capture stands in
    \cup {[imgs |-> <<>>, network |-> S, markup |-> {}, background |-> {}] :
            S \in {T \in SUBSET UrlPool : Cardinality(T) <= MaxCandidates}}
    \cup {[imgs |-> <<>>, network |-> S \cup Range(Fill(k)), markup |-> {},
           background |-> {}] :
            S \in {T \in SUBSET UrlPool : Cardinality(T) <= 1}, k \in FillCounts}
    \* one URL per channel
    \cup [imgs : {<<>>, <<ChannelUrl(4)>>}, network : {{}, {ChannelUrl(5)}},
          markup : {{}, {ChannelUrl(6)}}, background : {{}, {ChannelUrl(7)}}]

\* list(all_images): a set of str iterates in an order that the hash seed
\* and the insertion history decide.  The orders drawn here: every order of
\* the pool URLs, with the fill URLs before or after them.
SetOrders(S) ==
    LET F == {u \in S : u.id > FillBase}
        B == S \ F
        n == Cardinality(B)
        perms == {p \in [1 .. n -> B] : \A i, j \in 1 .. n : p[i] = p[j] => i = j}
    IN  {p \o Fill(Cardinality(F)) : p \in perms}
          \cup {Fill(Cardinality(F)) \o p : p \in perms}

(***************************************************************************)
(* The page scraper: the four text fields.  What a browser call gives is   *)
(* an outcome: kind "raise" (the call raised), "null" (the page script     *)
(* returned null) or "value" with its text.                                *)
(***************************************************************************)
\* title.replace(" | <site name>", "")
SITE_SUFFIX == " | aidieoseu"
\* len(clean) >= 3
MinTitleLen == 3
\* text[:6000]
DescriptionCap == 6000
\* t.length > 100 in the page script of _get_description
MinDescriptionLen == 100

Raised == [kind |-> "raise", text |-> <<>>]
Null == [kind |-> "null", text |-> <<>>]
Value(t) == [kind |-> "value", text |-> t]

\* A mutation of _get_title: the cleaned title is returned whatever is left
\* of it.
_get_title_unchecked(o) ==
    IF o.kind = "value" /\ o.text # <<>>
    THEN Strip(SelectSeq(o.text, LAMBDA c : c # SITE_SUFFIX))
    ELSE <<NO_TITLE>>

\* _get_title: page.title() without the site suffix, stripped, if that leaves
\* three characters; else, and on any exception, the sentinel.
_get_title(o) ==
    IF o.kind = "value" /\ o.text # <<>>
    THEN LET clean == Strip(SelectSeq(o.text, LAMBDA c : c # SITE_SUFFIX))
         IN  IF clean # <<>> /\ Len(clean) >= MinTitleLen THEN clean
             ELSE <<NO_TITLE>>
    ELSE <<NO_TITLE>>

\* _get_artist: the script's result if truthy, else the sentinel.
_get_artist(o) ==
    IF o.kind = "value" /\ o.text # <<>> THEN o.text ELSE <<NO_ARTIST>>

\* _get_price: the script's result if truthy, else the sentinel.
_get_price(o) ==
    IF o.kind = "value" /\ o.text # <<>> THEN o.text ELSE <<NO_PRICE>>

\* _get_description: the first 6000 characters of the script's result if
\* truthy, else the sentinel.
_get_description(o) ==
    IF o.kind = "value" /\ o.text # <<>> THEN Take(o.text, DescriptionCap)
    ELSE <<NO_DESCRIPTION>>

\* page.title(): a str (possibly empty), or an exception.
TitleOutcomes ==
    {Raised} \cup
    {Value(t) : t \in {<<>>, <<"a", "b", "c">>, <<"a", "b", SITE_SUFFIX>>,
                       <<"a", "b", "c", SITE_SUFFIX>>, <<SITE_SUFFIX>>,
                       <<" ", " ", " ">>, <<" ", "a", "b", " ", SITE_SUFFIX>>}}
\* The artist script: null, a trimmed link text of 2..30 characters, or the
\* content of the author meta tag (2 characters or more, not trimmed).
ArtistOutcomes == {Raised, Null, Value(<<"a", "b">>), Value(<<" ", " ">>)}
\* The price script: null, or the regex match (digits and the currency unit).
PriceOutcomes == {Raised, Null, Value(<<"1", "0", "0", "won">>)}
\* The description script: null, or the longest block of over 100 characters.
DescriptionOutcomes == {Raised, Null, Value(Chars(MinDescriptionLen + 1))}

\* The outcomes of the four calls of one run: one field varies at a time.
FieldOutcomes ==
    LET t0 == Value(<<"a", "b", "c">>)
        a0 == Value(<<"a", "b">>)
        p0 == Null
        d0 == Null
    IN  [title : TitleOutcomes, artist : {a0}, price : {p0}, description : {d0}]
          \cup [title : {t0}, artist : ArtistOutcomes, price : {p0},
                description : {d0}]
          \cup [title : {t0}, artist : {a0}, price : PriceOutcomes,
                description : {d0}]
          \cup [title : {t0}, artist : {a0}, price : {p0},
                description : DescriptionOutcomes]

(***************************************************************************)
(* The page scraper: option values.  An option item is the innerText of a  *)
(* list element, a sequence of tokens: characters, PRICE_SUFFIX (what      *)
(* r'\s*\(?[\+\-]?[\d,]+\s*won\)?\s*$' removes, in parentheses), and       *)
(* NOISE (a word of the noise lists).                                      *)
(***************************************************************************)
PRICE_SUFFIX == "(+1,000won)"
NOISE == "hwagin"
\* optText.length <= 60
MaxValueLen == 60

\* text.replace(<price at the end>, '').trim()
CleanValue(item) ==
    LET text == Strip(item)
    IN  IF text # <<>> /\ text[Len(text)] = PRICE_SUFFIX
        THEN Strip(SubSeq(text, 1, Len(text) - 1))
        ELSE text

\* Whether the page scripts take the item at all: 1..60 characters after the
\* trim, no noise word.  (None of the items here is a group header or a bare
\* price.)
ValidItem(item) ==
    LET text == Strip(item)
    IN  /\ Len(text) >= 1
        /\ Len(text) <= MaxValueLen
        /\ \A i \in DOMAIN text : text[i] # NOISE

\* A mutation of the harvest loop: values.push without the includes() test.
RECURSIVE HarvestValuesNoDedup(_, _)
HarvestValuesNoDedup(items, values) ==
    IF items = <<>> THEN values
    ELSE LET cleanValue == CleanValue(Head(items))
         IN  HarvestValuesNoDedup(Tail(items),
                 IF ValidItem(Head(items)) /\ Len(cleanValue) >= 1
                 THEN Append(values, cleanValue) ELSE values)

\* The harvest loop of the page scripts of _get_options and
\* _get_options_simple: a valid item's clean value is pushed unless it is
\* empty or already in `values`.
RECURSIVE HarvestValues(_, _)
HarvestValues(items, values) ==
    IF items = <<>> THEN values
    ELSE LET cleanValue == CleanValue(Head(items))
         IN  HarvestValues(Tail(items),
                 IF /\ ValidItem(Head(items))
                    /\ Len(cleanValue) >= 1
                    /\ cleanValue \notin Range(values)
                 THEN Append(values, cleanValue) ELSE values)

\* The script of _get_options_from_reviews for one option name: the trimmed
\* match, if not empty, is added to a Set, which keeps insertion order.
RECURSIVE ReviewValues(_, _)
ReviewValues(matches, values) ==
    IF matches = <<>> THEN values
    ELSE LET optValue == Strip(Head(matches))
         IN  ReviewValues(Tail(matches),
                 IF optValue # <<>> /\ optValue \notin Range(values)
                 THEN Append(values, optValue) ELSE values)

\* ProductOption(name, values)
ProductOption(name, values) == [name |-> name, values |-> values]

MaxItems == 4
ItemPool ==
    {<<"R">>, <<"R", " ">>, <<" ">>, <<"B">>, <<"R", " ", PRICE_SUFFIX>>,
     <<NOISE>>}
\* The items under a group header once it is expanded.
ItemLists == SeqsUpTo(ItemPool, 0, MaxItems)
\* The items next to a group header before it is expanded.
HeaderItemLists == SeqsUpTo({<<"B">>, <<" ">>}, 0, 1)
\* The values matched in the review texts for one option name.
ReviewLists == SeqsUpTo({<<"R">>, <<"B", " ">>}, 0, 2)
\* "option select (0/N)": the N the page shows.
MaxGroups == 2
GroupCounts == 1 .. MaxGroups
\* The name the header script finds for group i.
GroupName(i) == [k \in 1 .. i |-> "g"]

(***************************************************************************)
(* The page scraper: _full_scroll.  Heights and scroll positions are in    *)
(* pixels; document.body.scrollHeight is whatever the page has grown to.   *)
(***************************************************************************)
\* step = 400
ScrollStep == 400
\* The heights a page is seen with: multiples of half a step, up to
\* MaxHeightUnits of them.
MaxHeightUnits == 8
Heights == {k * (ScrollStep \div 2) : k \in 0 .. MaxHeightUnits}

\* first: the height the first evaluate returned.
IdleScroll == [pc |-> "idle", total |-> 0, current |-> 0, first |-> 0]

\* total = await page.evaluate("document.body.scrollHeight"); current = 0.
\* An exception ends in the except at the bottom, which returns.
_full_scroll ==
    /\ scrl.pc = "idle"
    /\ \E o \in {Raised} \cup {[kind |-> "value", text |-> h] : h \in Heights} :
         scrl' = IF o.kind = "raise"
                 THEN [scrl EXCEPT !.pc = "done"]
                 ELSE [scrl EXCEPT !.pc = "loop", !.total = o.text,
                                   !.first = o.text, !.current = 0]
    /\ UNCHANGED <<translatorVars, elapsed, initVars, req, coVars, page, scr,
                   mainVars>>

\* One pass of `while current < total`: scrollTo(0, current), the sleep,
\* current += step, the height read again and total raised to it if it grew.
ScrollPass ==
    /\ scrl.pc = "loop"
    /\ scrl.current < scrl.total
    /\ \E scrolled \in BOOLEAN,
          o \in {Raised} \cup {[kind |-> "value", text |-> h] : h \in Heights} :
         scrl' = IF ~scrolled
                 THEN [scrl EXCEPT !.pc = "done"]
                 ELSE IF o.kind = "raise"
                 THEN [scrl EXCEPT !.pc = "done", !.current = @ + ScrollStep]
                 ELSE [scrl EXCEPT !.current = @ + ScrollStep,
                                   !.total = IF o.text > @ THEN o.text ELSE @]
    /\ UNCHANGED <<translatorVars, elapsed, initVars, req, coVars, page, scr,
                   mainVars>>

\* After the loop: window.scrollTo(0, document.body.scrollHeight) and the
\* sleep; with or without an exception _full_scroll returns.
ScrollBottom ==
    /\ scrl.pc = "loop"
    /\ scrl.current >= scrl.total
    /\ scrl' = [scrl EXCEPT !.pc = "done"]
    /\ UNCHANGED <<translatorVars, elapsed, initVars, req, coVars, page, scr,
                   mainVars>>

(***************************************************************************)
(* One run of scrape_product                                               *)
(***************************************************************************)
\* The runs over one page: two, for the comparison of their image lists.
Runs == {1, 2}

\* The structured payload embedded in the page (window.__NUXT__), as far as
\* the fields go: the title, the artist and the price it exposes, <<>> for a
\* field it does not expose.  NoPayload: a page without one.
NoPayload == [title |-> <<>>, artist_name |-> <<>>, price |-> <<>>]
Payloads ==
    {NoPayload,
     [title |-> <<"s", "p", "o", "o", "n">>, artist_name |-> <<>>,
      price |-> <<"1", "8", "0", "0", "0">>]}
\* The pages of one run, as far as the fields go: the outcomes of the four
\* calls, and the payload of the page (varied with the title).
FieldPages ==
    {[fields |-> f, payload |-> pl] : f \in FieldOutcomes, pl \in {NoPayload}}
      \cup {[fields |-> f, payload |-> pl] :
              f \in {g \in FieldOutcomes : g.title \in {Raised, Value(<<>>)}},
              pl \in Payloads}

NoFields == [title |-> Null, artist |-> Null, price |-> Null, description |-> Null]

IdleScr ==
    [pc |-> "idle", raw |-> NoFields,
     title |-> <<>>, artist_name |-> <<>>, price |-> <<>>, description |-> <<>>,
     options |-> <<>>, option_clicked |-> FALSE, dismissed |-> FALSE,
     total_groups |-> 0, group_idx |-> 0, harvest |-> <<>>,
     positioned |-> <<>>, candidates |-> <<>>, path |-> None,
     detail_images |-> <<>>, outputs |-> <<>>,
     opened |-> FALSE, closed |-> FALSE,
     payload |-> NoPayload, clicks |-> <<>>]

\* `finally: await page.close()`: the close is called; if it raises, so does
\* scrape_product, whatever the try block ended with.
page_close(s, ok, after) ==
    [s EXCEPT !.closed = TRUE, !.pc = IF ok THEN after ELSE "raised"]

\* scrape_product, the first statement: page = await self.context.new_page().
\* opened: the call returned a page; closed: page.close() was called on it.
scrape_product ==
    /\ scr.pc = "idle"
    /\ \E created \in BOOLEAN :
         scr' = IF created THEN [scr EXCEPT !.pc = "stealth", !.opened = TRUE]
                ELSE [scr EXCEPT !.pc = "raised"]
    /\ UNCHANGED <<translatorVars, elapsed, initVars, req, coVars, page, scrl, mainVars>>

\* await stealth_async(page) and page.on("response", ...), both before the
\* try: an exception of the stealth scripts leaves scrape_product at once.
stealth_async ==
    /\ scr.pc = "stealth"
    /\ \E applied \in BOOLEAN :
         scr' = [scr EXCEPT !.pc = IF applied THEN "goto" ELSE "raised"]
    /\ UNCHANGED <<translatorVars, elapsed, initVars, req, coVars, page, scrl, mainVars>>

\* Inside the try: page.goto, which raises on a timeout, the sleep and
\* page.content(); an exception runs the finally and ends the request.
page_goto ==
    /\ scr.pc = "goto"
    /\ \E loaded \in BOOLEAN, ok \in BOOLEAN :
         scr' = IF loaded THEN [scr EXCEPT !.pc = "fields"]
                ELSE page_close(scr, ok, "raised")
    /\ UNCHANGED <<translatorVars, elapsed, initVars, req, coVars, page, scrl, mainVars>>

\* title, artist_name, price, description = the four _get_* calls; none of
\* them reads the payload of the page.
GetFields ==
    /\ scr.pc = "fields"
    /\ \E p \in FieldPages :
         LET f == p.fields
         IN  scr' = [scr EXCEPT !.pc = "options", !.raw = f,
                                !.payload = p.payload,
                                !.title = _get_title(f.title),
                                !.artist_name = _get_artist(f.artist),
                                !.price = _get_price(f.price),
                                !.description = _get_description(f.description)]
    /\ UNCHANGED <<translatorVars, elapsed, initVars, req, coVars, page, scrl, mainVars>>

\* _get_options_from_reviews: the groups of the script, those with values; an
\* exception gives none.
ReviewOutcomes == {Raised} \cup {[kind |-> "value", text |-> m] : m \in ReviewLists}
_get_options_from_reviews(o) ==
    IF o.kind = "value" /\ ReviewValues(o.text, <<>>) # <<>>
    THEN <<ProductOption(GroupName(1), ReviewValues(o.text, <<>>))>>
    ELSE <<>>

\* _get_options_simple: the groups of the panel script, those with values; an
\* exception gives none.
SimpleOutcomes == {Raised} \cup {[kind |-> "value", text |-> m] : m \in HeaderItemLists}
_get_options_simple(o) ==
    IF o.kind = "value" /\ HarvestValues(o.text, <<>>) # <<>>
    THEN <<ProductOption(GroupName(1), HarvestValues(o.text, <<>>))>>
    ELSE <<>>

\* _get_options has returned: the position after the call in scrape_product.
OptionsReturn(s) == [s EXCEPT !.pc = "scroll"]

\* _get_options, step 1: the trigger is looked for; without one the review
\* texts are scanned and nothing is clicked.
FindOptionArea ==
    /\ scr.pc = "options"
    /\ \E found \in BOOLEAN, m \in ReviewOutcomes :
         scr' = IF found
                THEN [scr EXCEPT !.pc = "opt_click"]
                ELSE OptionsReturn([scr EXCEPT
                         !.options = _get_options_from_reviews(m),
                         !.harvest = IF m.kind = "value" THEN m.text ELSE <<>>])
    /\ UNCHANGED <<translatorVars, elapsed, initVars, req, coVars, page, scrl, mainVars>>

\* _get_options, step 2: option_area.click(); an exception of the click ends
\* in the except at the bottom.
ClickOptionArea ==
    /\ scr.pc = "opt_click"
    /\ \E clicked \in BOOLEAN :
         scr' = IF clicked
                THEN [scr EXCEPT !.pc = "opt_count", !.option_clicked = TRUE]
                ELSE OptionsReturn(scr)
    /\ UNCHANGED <<translatorVars, elapsed, initVars, req, coVars, page, scrl, mainVars>>

\* _get_options, step 3: the group counter of the page, 1 without one; an
\* exception of the evaluate ends in the except at the bottom.
CountGroups ==
    /\ scr.pc = "opt_count"
    /\ \E o \in {[kind |-> "raise", total |-> 0], [kind |-> "null", total |-> 0]}
                   \cup {[kind |-> "value", total |-> n] : n \in GroupCounts} :
         scr' = IF o.kind = "raise"
                THEN OptionsReturn(scr)
                ELSE [scr EXCEPT !.pc = "opt_group", !.group_idx = 1,
                                 !.total_groups = IF o.kind = "null" THEN 1
                                                  ELSE o.total]
    /\ UNCHANGED <<translatorVars, elapsed, initVars, req, coVars, page, scrl, mainVars>>

\* The end of one iteration of `for group_idx in range(1, total_groups + 1)`.
NextGroup(s) ==
    IF s.group_idx < s.total_groups
    THEN [s EXCEPT !.group_idx = @ + 1]
    ELSE [s EXCEPT !.pc = "opt_fallback"]

\* page.keyboard.press("Escape"): the key press is issued; if it raises, the
\* except at the bottom takes over, and _get_options returns either way.
PressEscape(s) == OptionsReturn([s EXCEPT !.dismissed = TRUE])

\* _get_options, step 4, one iteration: the header script (name and the items
\* next to the header), the guarded header click, the script over the
\* expanded items, the group appended if it has values, the guarded click on
\* its first value.  An exception of either script ends in the except at the
\* bottom, with the groups appended so far.  The expanded items of the first
\* group are drawn from `lists`, those of later groups from the short lists.
\* The click on the first value, before a later group only: the element is
\* looked up by text="<value>" and clicked if there is one and it is
\* visible (clicked); an exception is passed over.  clicks: the values
\* clicked, with their group.
HarvestGroup(lists) ==
    /\ scr.pc = "opt_group"
    /\ \E h \in {Raised, Null} \cup {Value(m) : m \in HeaderItemLists},
          clicked \in IF scr.group_idx < scr.total_groups THEN BOOLEAN
                      ELSE {FALSE} :
         IF h.kind = "raise"
         THEN scr' = OptionsReturn(scr)
         ELSE IF h.kind = "null"
         THEN scr' = NextGroup(scr)
         ELSE \E e \in {Raised} \cup {Value(m) : m \in IF scr.group_idx = 1 THEN lists
                                                          ELSE HeaderItemLists} :
              LET expanded_values == HarvestValues(e.text, <<>>)
                  final_values == IF expanded_values # <<>> THEN expanded_values
                                  ELSE HarvestValues(h.text, <<>>)
              IN  scr' =
                    IF e.kind = "raise"
                    THEN OptionsReturn(scr)
                    ELSE IF final_values # <<>>
                    THEN NextGroup([scr EXCEPT
                             !.options = Append(@, ProductOption(
                                             GroupName(scr.group_idx), final_values)),
                             !.harvest = IF expanded_values # <<>> THEN e.text
                                         ELSE h.text,
                             !.clicks = IF clicked
                                        THEN Append(@, [group |-> scr.group_idx,
                                                        value |-> final_values[1]])
                                        ELSE @])
                    ELSE NextGroup(scr)
    /\ UNCHANGED <<translatorVars, elapsed, initVars, req, coVars, page, scrl, mainVars>>

\* _get_options, steps 5 and 6: without a group so far the simple panel scan,
\* then the review scan; then the Escape.
OptionsFallback ==
    /\ scr.pc = "opt_fallback"
    /\ \E p \in SimpleOutcomes, m \in ReviewOutcomes :
         LET simple == _get_options_simple(p)
             chosen == IF scr.options # <<>> THEN [o |-> scr.options, h |-> scr.harvest]
                       ELSE IF simple # <<>> THEN [o |-> simple, h |-> p.text]
                       ELSE [o |-> _get_options_from_reviews(m),
                             h |-> IF m.kind = "value" THEN m.text ELSE <<>>]
         IN  scr' = PressEscape([scr EXCEPT !.options = chosen.o,
                                            !.harvest = chosen.h])
    /\ UNCHANGED <<translatorVars, elapsed, initVars, req, coVars, page, scrl, mainVars>>

\* scrape_product, steps 2 and 3: the guarded click on the expand button,
\* _full_scroll, which catches its exceptions (here: once it has returned),
\* and page.content(), whose exception runs the finally.
ExpandAndScroll ==
    /\ scr.pc = "scroll"
    /\ \E content \in BOOLEAN, ok \in BOOLEAN :
         scr' = IF content THEN [scr EXCEPT !.pc = "images"]
                ELSE page_close(scr, ok, "raised")
    /\ UNCHANGED <<translatorVars, elapsed, initVars, req, coVars, page, scrl, mainVars>>

\* _extract_images_with_position: the img elements of the detail area, in
\* position order; [] on an exception.
_extract_images_with_position ==
    /\ scr.pc = "images"
    /\ \E evaluated \in BOOLEAN :
         scr' = [scr EXCEPT !.pc = "filter",
                            !.positioned = IF evaluated
                                           THEN collectImages(page.imgs, {})
                                           ELSE <<>>]
    /\ UNCHANGED <<translatorVars, elapsed, initVars, req, coVars, page, scrl, mainVars>>

\* scrape_product, step 5, with positioned images: they alone are filtered.
FilterPositioned ==
    /\ scr.pc = "filter"
    /\ Len(scr.positioned) >= 1
    /\ scr' = [scr EXCEPT !.pc = "return", !.path = "position",
                          !.candidates = scr.positioned,
                          !.detail_images = _filter_images(scr.positioned)]
    /\ UNCHANGED <<translatorVars, elapsed, initVars, req, coVars, page, scrl, mainVars>>

\* scrape_product, step 5, without positioned images: the network capture, as
\* a list in the set's order, through the strict filter.
FilterFallback ==
    /\ scr.pc = "filter"
    /\ Len(scr.positioned) = 0
    /\ \E all_images \in SetOrders(page.network) :
         scr' = [scr EXCEPT !.pc = "return", !.path = "fallback",
                            !.candidates = all_images,
                            !.detail_images = _filter_images_strict(all_images)]
    /\ UNCHANGED <<translatorVars, elapsed, initVars, req, coVars, page, scrl, mainVars>>

\* return ProductData(...), through the finally.
ReturnRecord ==
    /\ scr.pc = "return"
    /\ \E ok \in BOOLEAN : scr' = page_close(scr, ok, "returned")
    /\ UNCHANGED <<translatorVars, elapsed, initVars, req, coVars, page, scrl, mainVars>>

\* The next request for the same page starts at `start`; the path, the
\* candidates and the image list of the run that returned are kept for
\* comparison.
NextRun(start) ==
    /\ scr.pc \in {"returned", "raised"}
    /\ Len(scr.outputs) + 2 \in Runs
    /\ scr' = [start EXCEPT !.outputs =
                  IF scr.pc = "returned"
                  THEN Append(scr.outputs, [path |-> scr.path,
                                            candidates |-> scr.candidates,
                                            detail_images |-> scr.detail_images])
                  ELSE scr.outputs]
    /\ UNCHANGED <<translatorVars, elapsed, initVars, req, coVars, page, scrl, mainVars>>

\* No page and no scraper run: the state of the translator's specifications.
NoPage == [imgs |-> <<>>, network |-> {}, markup |-> {}, background |-> {}]
NoScrape ==
    /\ page = NoPage
    /\ scr = IdleScr
    /\ scrl = IdleScroll

\* scrape_product once the fields and the options are there (line 142).
AtFields == [title |-> Value(<<"a", "b", "c">>), artist |-> Null, price |-> Null,
             description |-> Null]
AtOptions ==
    [IdleScr EXCEPT !.pc = "options", !.raw = AtFields, !.opened = TRUE,
                    !.title = _get_title(AtFields.title),
                    !.artist_name = _get_artist(AtFields.artist),
                    !.price = _get_price(AtFields.price),
                    !.description = _get_description(AtFields.description)]
AtImages == [AtOptions EXCEPT !.pc = "images"]

(***************************************************************************)
(* main.py: the services.  The module holds three globals, scraper,        *)
(* translator and is_initialized; every endpoint awaits                    *)
(* initialize_services first.  A coroutine runs until its next await; the  *)
(* awaits of initialize_services are those of IdusScraper.initialize.      *)
(* The IdusScraper a request constructs is named by the request; 0 is      *)
(* None.                                                                   *)
(***************************************************************************)
MaxRequests == 2
Requests == 1 .. MaxRequests

\* The handles of an IdusScraper, in the order close() goes through them.
Handles == {"context", "browser", "playwright"}

\* IdusScraper.__init__: no handle, not initialized.  held: the handle is
\* set; closes: how often close() called its close or stop; failed: the
\* handles whose close or stop raised.
NewScraper ==
    [held |-> [h \in Handles |-> FALSE], _initialized |-> FALSE,
     closes |-> [h \in Handles |-> 0], failed |-> {}]

\* translators: the ProductTranslator objects constructed so far.
\* shut: the position of lifespan, "serving" before the yield returns.
IdleSvc ==
    [scraper |-> 0, translator |-> 0, is_initialized |-> FALSE,
     inst |-> [r \in Requests |-> NewScraper], translators |-> 0,
     pc |-> [r \in Requests |-> "idle"], shut |-> "serving",
     close_raised |-> FALSE]

\* initialize_services up to its first await: the flag is read; without it
\* the translator is constructed (its probing is synchronous), the global
\* scraper is set to a new IdusScraper and its initialize() is awaited,
\* which suspends in async_playwright().start().
initialize_services(r) ==
    /\ svc.shut = "serving"
    /\ svc.pc[r] = "idle"
    /\ svc' = IF svc.is_initialized
              THEN [svc EXCEPT !.pc[r] = "done"]
              ELSE [svc EXCEPT !.translators = @ + 1, !.translator = r,
                               !.scraper = r, !.pc[r] = "start"]
    /\ UNCHANGED <<translatorVars, elapsed, initVars, req, coVars, scraperVars,
                   api>>

\* initialize() raised: `except: scraper = None`, then is_initialized = True.
InitFailed(s, r) ==
    [s EXCEPT !.scraper = 0, !.is_initialized = TRUE, !.pc[r] = "done"]

\* self.playwright = await async_playwright().start()
StartDriver(r) ==
    /\ svc.pc[r] = "start"
    /\ \E ok \in BOOLEAN :
         svc' = IF ok THEN [svc EXCEPT !.inst[r].held["playwright"] = TRUE,
                                       !.pc[r] = "launch"]
                ELSE InitFailed(svc, r)
    /\ UNCHANGED <<translatorVars, elapsed, initVars, req, coVars, scraperVars,
                   api>>

\* self.browser = await self.playwright.chromium.launch(...)
LaunchBrowser(r) ==
    /\ svc.pc[r] = "launch"
    /\ \E ok \in BOOLEAN :
         svc' = IF ok THEN [svc EXCEPT !.inst[r].held["browser"] = TRUE,
                                       !.pc[r] = "context"]
                ELSE InitFailed(svc, r)
    /\ UNCHANGED <<translatorVars, elapsed, initVars, req, coVars, scraperVars,
                   api>>

\* self.context = await self.browser.new_context(...); self._initialized =
\* True; back in initialize_services, is_initialized = True.
NewContext(r) ==
    /\ svc.pc[r] = "context"
    /\ \E ok \in BOOLEAN :
         svc' = IF ok THEN [svc EXCEPT !.inst[r].held["context"] = TRUE,
                                       !.inst[r]._initialized = TRUE,
                                       !.is_initialized = TRUE,
                                       !.pc[r] = "done"]
                ELSE InitFailed(svc, r)
    /\ UNCHANGED <<translatorVars, elapsed, initVars, req, coVars, scraperVars,
                   api>>

\* lifespan after the yield, once no request is in flight: `if scraper:`
\* close() is awaited.
lifespan ==
    /\ svc.shut = "serving"
    /\ \A r \in Requests : svc.pc[r] \in {"idle", "done"}
    /\ svc' = [svc EXCEPT !.shut = IF svc.scraper # 0 THEN "close_context"
                                   ELSE "stopped"]
    /\ UNCHANGED <<translatorVars, elapsed, initVars, req, coVars, scraperVars,
                   api>>

\* A mutation of close(): the steps are not guarded, the first exception
\* leaves close() and the rest is not attempted.
close_step_unguarded(s, h, next, ok) ==
    LET i == s.scraper
    IN  IF ~s.inst[i].held[h]
        THEN [s EXCEPT !.shut = next,
                       !.inst[i]._initialized = IF next = "stopped" THEN FALSE
                                                ELSE @]
        ELSE IF ok
        THEN [s EXCEPT !.shut = next, !.inst[i].closes[h] = @ + 1,
                       !.inst[i]._initialized = IF next = "stopped" THEN FALSE
                                                ELSE @]
        ELSE [s EXCEPT !.shut = "stopped", !.close_raised = TRUE,
                       !.inst[i].closes[h] = @ + 1,
                       !.inst[i].failed = @ \cup {h}]

\* One step of close(): `if self.<h>: try: await self.<h>.close() except:
\* pass`; after the last one self._initialized = False.
close_step(s, h, next, ok) ==
    LET i == s.scraper
    IN  [s EXCEPT !.shut = next,
                  !.inst[i].closes[h] = IF s.inst[i].held[h] THEN @ + 1 ELSE @,
                  !.inst[i].failed = IF s.inst[i].held[h] /\ ~ok THEN @ \cup {h}
                                     ELSE @,
                  !.inst[i]._initialized = IF next = "stopped" THEN FALSE
                                           ELSE @]

CloseContext ==
    /\ svc.shut = "close_context"
    /\ \E ok \in BOOLEAN : svc' = close_step(svc, "context", "close_browser", ok)
    /\ UNCHANGED <<translatorVars, elapsed, initVars, req, coVars, scraperVars,
                   api>>

CloseBrowser ==
    /\ svc.shut = "close_browser"
    /\ \E ok \in BOOLEAN : svc' = close_step(svc, "browser", "stop", ok)
    /\ UNCHANGED <<translatorVars, elapsed, initVars, req, coVars, scraperVars,
                   api>>

StopDriver ==
    /\ svc.shut = "stop"
    /\ \E ok \in BOOLEAN : svc' = close_step(svc, "playwright", "stopped", ok)
    /\ UNCHANGED <<translatorVars, elapsed, initVars, req, coVars, scraperVars,
                   api>>

\* The services once the first request has been through initialize_services,
\* with the browser up (launched) or with a launch that raised.
ServicesAfter(launched) ==
    IF launched
    THEN [IdleSvc EXCEPT !.scraper = 1, !.translator = 1, !.translators = 1,
                         !.is_initialized = TRUE, !.pc[1] = "done",
                         !.inst[1].held = [h \in Handles |-> TRUE],
                         !.inst[1]._initialized = TRUE]
    ELSE [IdleSvc EXCEPT !.scraper = 0, !.translator = 1, !.translators = 1,
                         !.is_initialized = TRUE, !.pc[1] = "done",
                         !.inst[1].held["playwright"] = TRUE]

(***************************************************************************)
(* main.py: the endpoints.  A URL is kept by the parts the handlers look   *)
(* at: its host and its query string; "idus.com" occurs in the host        *)
(* www.idus.com and in the query ref=idus.com.  What                       *)
(* scraper.scrape_product(url) ends in is a record or an exception (see    *)
(* SpecScrape); translator.translate_product returns (see Spec).           *)
(***************************************************************************)
\* MAX_BATCH_SIZE = 10
MAX_BATCH_SIZE == 10
\* The longest list of URLs a batch request carries.
MaxUrls == 11

PageUrl(host, query) == [host |-> host, query |-> query]
IDUS_URL == PageUrl("www.idus.com", "")
Urls == {IDUS_URL, PageUrl("example.com", ""), PageUrl("example.com", "ref=idus.com")}
\* "idus.com" in url
HasTargetDomain(url) == url.host = "www.idus.com" \/ url.query = "ref=idus.com"

\* The lists of a batch request: every short list, and IDUS_URL over and over.
UrlLists ==
    SeqsUpTo(Urls, 0, 2) \cup {[k \in 1 .. n |-> IDUS_URL] : n \in {MAX_BATCH_SIZE, MaxUrls}}

\* str(e) of the exception scrape_product raises on a navigation timeout.
TIMEOUT == "Timeout 60000ms exceeded"
ScrapeOutcomes == {"record", TIMEOUT}

\* data=None
NoData == [type |-> "NoneType"]
\* The ProductData scrape_product returns for a URL.
ProductData(url) == [type |-> "ProductData", url |-> url]
\* The TranslatedProduct translate_product returns.
TranslatedData(product, lang) ==
    [type |-> "TranslatedProduct", original |-> product, target_language |-> lang]
\* The dict debug_scrape builds from the record.
DebugSummary(product) == [type |-> "dict", url |-> product.url]

\* message: the fixed text and, in the except branches, str(e).
Message(text, error) == [text |-> text, error |-> error]

\* ScrapeResponse(success=, message=, data=), TranslateResponse(...) and the
\* dicts of debug_scrape (without a data key when it failed).
Response(success, message, data) ==
    [success |-> success, message |-> message, data |-> data]

BatchItemResult(url, success, message, data, original_data) ==
    [url |-> url, success |-> success, message |-> message, data |-> data,
     original_data |-> original_data]

BatchTranslateResponse(success, message, total, succeeded, failed, results) ==
    [success |-> success, message |-> message, total_count |-> total,
     success_count |-> succeeded, failed_count |-> failed, results |-> results]

NoResponse == [type |-> "NoneType"]

\* error: str(e) of the exception the handler caught, "" without one.
\* navigated: the URLs handed to scraper.scrape_product, which goes to them.
IdleApi ==
    [pc |-> "idle", endpoint |-> None, url |-> IDUS_URL, request_urls |-> <<>>,
     urls |-> <<>>, target_language |-> None, idx |-> 0, results |-> <<>>,
     success_count |-> 0, failed_count |-> 0, product |-> NoData,
     error |-> "", navigated |-> <<>>, response |-> NoResponse]

Respond_(a, response) == [a EXCEPT !.pc = "responded", !.response = response]

\* await scraper.scrape_product(url)
CallScraper(a, url) ==
    [a EXCEPT !.pc = "scraping", !.navigated = Append(@, url)]

\* The response of a handler from the arrival to its first await of the
\* scraper: the two availability checks, then the check of the URL.
ScraperMissing == Response(FALSE, Message("scraper not initialized", ""), NoData)
TranslatorMissing == Response(FALSE, Message("translator not initialized", ""), NoData)
InvalidUrl == Response(FALSE, Message("not a valid idus URL", ""), NoData)

\* POST /api/scrape
post_scrape ==
    /\ api.pc = "idle"
    /\ \E url \in Urls :
         LET a == [api EXCEPT !.endpoint = "scrape", !.url = url]
         IN  api' = IF svc.scraper = 0 THEN Respond_(a, ScraperMissing)
                    ELSE IF ~HasTargetDomain(url) THEN Respond_(a, InvalidUrl)
                    ELSE CallScraper(a, url)
    /\ UNCHANGED <<translatorVars, elapsed, initVars, req, coVars, scraperVars,
                   svc>>

\* GET /api/debug/scrape
debug_scrape ==
    /\ api.pc = "idle"
    /\ \E url \in Urls :
         LET a == [api EXCEPT !.endpoint = "debug", !.url = url]
         IN  api' = IF svc.scraper = 0 THEN Respond_(a, ScraperMissing)
                    ELSE CallScraper(a, url)
    /\ UNCHANGED <<translatorVars, elapsed, initVars, req, coVars, scraperVars,
                   svc>>

\* POST /api/translate: the record comes with the request.
post_translate ==
    /\ api.pc = "idle"
    /\ \E url \in Urls, lang \in TargetLanguage :
         LET a == [api EXCEPT !.endpoint = "translate", !.url = url,
                              !.target_language = lang,
                              !.product = ProductData(url)]
         IN  api' = IF svc.translator = 0 THEN Respond_(a, TranslatorMissing)
                    ELSE [a EXCEPT !.pc = "translating"]
    /\ UNCHANGED <<translatorVars, elapsed, initVars, req, coVars, scraperVars,
                   svc>>

\* POST /api/scrape-and-translate; target_language is a str here, "en" by
\* default, and every other value means Japanese.
scrape_and_translate ==
    /\ api.pc = "idle"
    /\ \E url \in Urls, target_language \in {"en", "ja", "fr"} :
         LET a == [api EXCEPT !.endpoint = "scrape_and_translate", !.url = url,
                              !.target_language = target_language]
         IN  api' = IF svc.scraper = 0 THEN Respond_(a, ScraperMissing)
                    ELSE IF svc.translator = 0 THEN Respond_(a, TranslatorMissing)
                    ELSE IF ~HasTargetDomain(url) THEN Respond_(a, InvalidUrl)
                    ELSE CallScraper(a, url)
    /\ UNCHANGED <<translatorVars, elapsed, initVars, req, coVars, scraperVars,
                   svc>>

\* The response of batch_translate without a scraper or without a
\* translator.
BatchUnavailable(message, urls) ==
    BatchTranslateResponse(FALSE, Message(message, ""), Len(urls), 0, Len(urls),
                           <<>>)

\* POST /api/batch-translate up to the loop: urls = request.urls[:10].
batch_translate ==
    /\ api.pc = "idle"
    /\ \E urls \in UrlLists, lang \in TargetLanguage :
         LET a == [api EXCEPT !.endpoint = "batch", !.request_urls = urls,
                              !.target_language = lang]
         IN  api' = IF svc.scraper = 0
                    THEN Respond_(a, BatchUnavailable("scraper not initialized",
                                                      urls))
                    ELSE IF svc.translator = 0
                    THEN Respond_(a, BatchUnavailable("translator not initialized",
                                                      urls))
                    ELSE [a EXCEPT !.pc = "batch",
                                   !.urls = Take(urls, MAX_BATCH_SIZE)]
    /\ UNCHANGED <<translatorVars, elapsed, initVars, req, coVars, scraperVars,
                   svc>>

\* One more item of the batch, failed: results.append(...), failed_count += 1.
BatchFailed(a, message) ==
    [a EXCEPT !.pc = "batch", !.idx = @ + 1, !.failed_count = @ + 1,
              !.results = Append(@, BatchItemResult(a.urls[a.idx + 1], FALSE,
                                                    message, NoData, NoData))]

\* `for idx, url in enumerate(urls)`: the check of the next URL, and after
\* the last one the response.
BatchNext ==
    /\ api.pc = "batch"
    /\ api' = IF api.idx = Len(api.urls)
              THEN Respond_(api, BatchTranslateResponse(
                       api.success_count > 0, Message("batch done", ""),
                       Len(api.urls), api.success_count, api.failed_count,
                       api.results))
              ELSE IF ~HasTargetDomain(api.urls[api.idx + 1])
              THEN BatchFailed(api, Message("not a valid idus URL", ""))
              ELSE CallScraper(api, api.urls[api.idx + 1])
    /\ UNCHANGED <<translatorVars, elapsed, initVars, req, coVars, scraperVars,
                   svc>>

\* A mutation of the except branches: the failure is reported as a success.
Failure_flagged(text, e) == Response(TRUE, Message(text, e), NoData)

\* The except branch of a handler: success=False, the message with str(e),
\* data=None.
Failure(text, e) == Response(FALSE, Message(text, e), NoData)

\* scraper.scrape_product has returned or raised.
ScrapeReturns ==
    /\ api.pc = "scraping"
    /\ \E o \in ScrapeOutcomes :
         LET url == api.navigated[Len(api.navigated)]
             product == ProductData(url)
             a == [api EXCEPT !.error = IF o = "record" THEN @ ELSE o,
                              !.product = IF o = "record" THEN product ELSE @]
         IN  api' =
               CASE api.endpoint = "scrape" ->
                      IF o = "record"
                      THEN Respond_(a, Response(TRUE, Message("crawl done", ""),
                                                product))
                      ELSE Respond_(a, Failure("crawl error", o))
                 [] api.endpoint = "debug" ->
                      IF o = "record"
                      THEN Respond_(a, Response(TRUE, Message("", ""),
                                                DebugSummary(product)))
                      ELSE Respond_(a, Failure("", o))
                 [] api.endpoint = "scrape_and_translate" ->
                      IF o = "record" THEN [a EXCEPT !.pc = "translating"]
                      ELSE Respond_(a, Failure("processing error", o))
                 [] api.endpoint = "batch" ->
                      IF o = "record" THEN [a EXCEPT !.pc = "translating"]
                      ELSE BatchFailed(a, Message("processing error", o))
    /\ UNCHANGED <<translatorVars, elapsed, initVars, req, coVars, scraperVars,
                   svc>>

\* translator.translate_product has returned.
TranslateReturns ==
    /\ api.pc = "translating"
    /\ api' =
         CASE api.endpoint = "translate" ->
                Respond_(api, Response(TRUE, Message("translation done", ""),
                             TranslatedData(api.product, api.target_language)))
           [] api.endpoint = "scrape_and_translate" ->
                Respond_(api, Response(TRUE, Message("crawl and translation done", ""),
                             TranslatedData(api.product,
                                 IF api.target_language = "en" THEN "en" ELSE "ja")))
           [] api.endpoint = "batch" ->
                [api EXCEPT !.pc = "batch", !.idx = @ + 1,
                            !.success_count = @ + 1,
                            !.results = Append(@, BatchItemResult(
                                api.urls[api.idx + 1], TRUE,
                                Message("done", ""),
                                TranslatedData(api.product, api.target_language),
                                api.product))]
    /\ UNCHANGED <<translatorVars, elapsed, initVars, req, coVars, scraperVars,
                   svc>>

\* No services and no request: the state of the other specifications.
MainIdle ==
    /\ svc = IdleSvc
    /\ api = IdleApi

(***************************************************************************)
(* Specifications                                                          *)
(***************************************************************************)
\* The constructor's locals once it has returned.
Constructed ==
    /\ ipc = "done"
    /\ probeIdx = 0
    /\ probeLog = <<>>
    /\ api_key_leaked = FALSE

NoCoroutines ==
    /\ co = [r \in Coroutines |-> [pc |-> "done", remain |-> 0, jobs |-> 0,
                                   attempt |-> 0]]
    /\ leaveGap = Horizon

\* The states construction ends in (see SpecProbe): no key or a failed client
\* constructor; a client but no model; a client and the selected model.
\* self._last_request_time = 0, so the first `elapsed` is past the delay.
Init ==
    /\ \/ /\ api_key \in {None, ""}
          /\ client = None /\ _initialized = FALSE /\ _model_name = None
       \/ /\ api_key = "key"
          /\ \/ client = None /\ _initialized = FALSE /\ _model_name = None
             \/ client = "genai.Client" /\ _initialized = FALSE /\ _model_name = None
             \/ /\ client = "genai.Client" /\ _initialized = TRUE
                /\ _model_name = model_candidates[1]
    /\ elapsed = Horizon
    /\ Constructed
    /\ req = IdleReq
    /\ NoCoroutines
    /\ NoScrape
    /\ MainIdle

Next ==
    \/ translate_single_text
    \/ translate_product
    \/ TextSkip
    \/ TextAttempt(ProductResponses)
    \/ OcrAttempt
    \/ Respond

\* One orchestrator serving one request after the other.
Spec == Init /\ [][Next]_vars

\* translate_single_text on an initialized orchestrator, every response text.
InitText ==
    /\ api_key = "key"
    /\ client = "genai.Client" /\ _initialized = TRUE
    /\ _model_name = model_candidates[1]
    /\ elapsed = Horizon
    /\ Constructed
    /\ req = IdleReq
    /\ NoCoroutines
    /\ NoScrape
    /\ MainIdle

NextText ==
    \/ translate_single_text
    \/ TextSkip
    \/ TextAttempt(Responses)
    \/ Respond

SpecText == InitText /\ [][NextText]_vars

\* The constructor, probe by probe.
InitProbe ==
    /\ api_key \in ApiKeys
    /\ client = None /\ _initialized = FALSE /\ _model_name = None
    /\ elapsed = Horizon
    /\ ipc = "new" /\ probeIdx = 0 /\ probeLog = <<>> /\ api_key_leaked = FALSE
    /\ req = IdleReq
    /\ NoCoroutines
    /\ NoScrape
    /\ MainIdle

NextProbe == Construct \/ CreateClient \/ Probe

SpecProbe == InitProbe /\ [][NextProbe]_vars

\* Two requests on one initialized orchestrator.
InitConc ==
    /\ api_key = "key"
    /\ client = "genai.Client" /\ _initialized = TRUE
    /\ _model_name = model_candidates[1]
    /\ elapsed = Horizon
    /\ Constructed
    /\ req = IdleReq
    /\ \E j \in [Coroutines -> 1 .. MaxJobs] :
         co = [r \in Coroutines |-> [pc |-> "start", remain |-> 0, jobs |-> j[r],
                                     attempt |-> 0]]
    /\ leaveGap = Horizon
    /\ NoScrape
    /\ MainIdle

NextConc == (\E r \in Coroutines : CoEnter(r) \/ CoLeave(r)) \/ Tick

SpecConc == InitConc /\ [][NextConc]_vars


\* The translator of the scraper's specifications: constructed, idle.
TranslatorIdle ==
    /\ api_key = "key"
    /\ client = "genai.Client" /\ _initialized = TRUE
    /\ _model_name = model_candidates[1]
    /\ elapsed = Horizon
    /\ Constructed
    /\ req = IdleReq
    /\ NoCoroutines

\* scrape_product from the navigation to the record, run after run, on pages
\* with at most one image per channel.
ScrapePages == {p \in ImagePages : p.markup = {} /\ p.background = {}
                                   /\ Len(p.imgs) <= 1 /\ Cardinality(p.network) <= 1}
InitScrape ==
    /\ TranslatorIdle
    /\ page \in ScrapePages
    /\ scr = IdleScr
    /\ scrl = IdleScroll
    /\ MainIdle

NextScrape ==
    \/ scrape_product
    \/ stealth_async
    \/ page_goto
    \/ GetFields
    \/ FindOptionArea
    \/ ClickOptionArea
    \/ CountGroups
    \/ HarvestGroup(HeaderItemLists)
    \/ OptionsFallback
    \/ ExpandAndScroll
    \/ _extract_images_with_position
    \/ FilterPositioned
    \/ FilterFallback
    \/ ReturnRecord
    \/ NextRun(IdleScr)

SpecScrape == InitScrape /\ [][NextScrape]_vars

\* _get_options alone, every item list.
InitOptions ==
    /\ TranslatorIdle
    /\ page = NoPage
    /\ scr = AtOptions
    /\ scrl = IdleScroll
    /\ MainIdle

NextOptions ==
    \/ FindOptionArea
    \/ ClickOptionArea
    \/ CountGroups
    \/ HarvestGroup(ItemLists)
    \/ OptionsFallback

SpecOptions == InitOptions /\ [][NextOptions]_vars

\* The image part of scrape_product, every page, twice per page.
InitImages ==
    /\ TranslatorIdle
    /\ page \in ImagePages
    /\ scr = AtImages
    /\ scrl = IdleScroll
    /\ MainIdle

NextImages ==
    \/ _extract_images_with_position
    \/ FilterPositioned
    \/ FilterFallback
    \/ ReturnRecord
    \/ NextRun(AtImages)

SpecImages == InitImages /\ [][NextImages]_vars

\* _full_scroll alone, over every height the page is seen with.
InitScroll ==
    /\ TranslatorIdle
    /\ page = NoPage
    /\ scr = [AtOptions EXCEPT !.pc = "scroll"]
    /\ scrl = IdleScroll
    /\ MainIdle

NextScroll ==
    \/ _full_scroll
    \/ ScrollPass
    \/ ScrollBottom

SpecScroll == InitScroll /\ [][NextScroll]_vars

\* The first requests arriving at a fresh process, then the shutdown.
InitLifecycle ==
    /\ TranslatorIdle
    /\ NoScrape
    /\ MainIdle

NextLifecycle ==
    \/ \E r \in Requests : initialize_services(r)
    \/ \E r \in Requests : StartDriver(r)
    \/ \E r \in Requests : LaunchBrowser(r)
    \/ \E r \in Requests : NewContext(r)
    \/ lifespan
    \/ CloseContext
    \/ CloseBrowser
    \/ StopDriver

SpecLifecycle == InitLifecycle /\ [][NextLifecycle]_vars

\* One request to an endpoint of a process whose services are initialized.
InitApi ==
    /\ TranslatorIdle
    /\ NoScrape
    /\ svc \in {ServicesAfter(TRUE), ServicesAfter(FALSE)}
    /\ api = IdleApi

NextApi ==
    \/ post_scrape
    \/ debug_scrape
    \/ post_translate
    \/ scrape_and_translate
    \/ batch_translate
    \/ BatchNext
    \/ ScrapeReturns
    \/ TranslateReturns

SpecApi == InitApi /\ [][NextApi]_vars



(***************************************************************************)
(* Properties                                                              *)
(***************************************************************************)
AllThrottled(log) == \A i \in DOMAIN log : log[i] = "throttle"

\* C1: on an orchestrator that construction left uninitialized, every
\* translation call is a passthrough: translate_single_text returns its text
\* unchanged (the empty string included) and translate_product returns the
\* title, the description and the options of its record; neither raises.
UninitializedPassthrough ==
    (~_initialized /\ req.pc = "done") =>
        /\ ~req.raised
        /\ req.op = "single" => req.returned = req.text
        /\ req.op = "product" =>
             /\ req.returned.translated_title = req.product_data.title
             /\ req.returned.translated_description = req.product_data.description
             /\ req.returned.translated_options = req.product_data.options
             /\ req.returned.original = req.product_data

\* C1, its case: a client without a model, and a text that is sent and fails.
UninitializedPassthroughWitness ==
    /\ ~_initialized
    /\ client # None
    /\ req.pc = "done"
    /\ req.op = "single"
    /\ req.text = <<"a">>
    /\ req.callLog = <<"error">>
    /\ req.returned = <<"a">>

\* C2: when every attempt for a text is throttled, the retry loop makes
\* exactly _max_retries model calls and then returns the text unchanged; no
\* exception leaves it.
ThrottledRetriesThenPassthrough ==
    (req.callLog # <<>> /\ AllThrottled(req.callLog)) =>
        /\ ~req.raised
        /\ req.pc = "text" =>
             /\ Len(req.callLog) = req.attempt
             /\ req.attempt < _max_retries
        /\ (req.op = "single" /\ req.pc = "done") =>
             /\ Len(req.callLog) = _max_retries
             /\ req.returned = req.text

\* C2, its case: three throttled calls for one text, then the text.
ThrottledRetriesWitness ==
    /\ _initialized
    /\ req.op = "single"
    /\ req.pc = "done"
    /\ req.callLog = <<"throttle", "throttle", "throttle">>
    /\ req.text = <<"a">>
    /\ req.returned = <<"a">>

\* C3: a model call that fails with a non-throttling error is the last call
\* for its text (the only one when it is the first), and the text is returned
\* unchanged.
NoRetryAfterOtherFailure ==
    /\ req.pc = "text" => AllThrottled(req.callLog)
    /\ (req.op = "single" /\ req.pc = "done" /\ req.callLog # <<>>
          /\ req.callLog[Len(req.callLog)] = "error") =>
             /\ AllThrottled(SubSeq(req.callLog, 1, Len(req.callLog) - 1))
             /\ req.returned = req.text
             /\ ~req.raised

\* C3, its case: on an initialized orchestrator the first call fails.
NoRetryAfterOtherFailureWitness ==
    /\ _initialized
    /\ req.op = "single"
    /\ req.pc = "done"
    /\ req.callLog = <<"error">>
    /\ req.text = <<"a">>
    /\ req.returned = <<"a">>

\* C4: for every text that is neither empty nor blank, and every model outcome,
\* _translate_text_with_retry returns a non-empty string.
TranslatedFieldNeverEmpty ==
    (req.op = "single" /\ req.pc = "done" /\ Strip(req.text) # <<>>) =>
        req.returned # <<>>

\* C5: within one translate_product run at least _request_delay elapses
\* between any two consecutive external model calls, text calls, vision calls
\* and retried calls alike.
MinimumSpacingBetweenCalls ==
    (req.op = "product" /\ req.lastGap # -1) => req.lastGap >= _request_delay

\* C6: under every interleaving of the coroutines sharing the orchestrator, no
\* two of them leave _wait_for_rate_limit less than _request_delay apart.
LimiterSerializesCoroutines == leaveGap >= _request_delay


SoftOutcomes == {"empty", "quota", "unavailable", "other"}

\* C7: probing visits the candidates in priority order and stops at the first
\* success: the orchestrator ends initialized exactly when a probe returned a
\* non-empty response, the selected model is that probe's candidate, nothing
\* is probed after it, and an empty response or a quota, availability or other
\* failure only moves the loop on to the next candidate.
ProbingStopsAtFirstSuccess ==
    /\ Len(probeLog) <= Len(model_candidates)
    /\ \A i \in DOMAIN probeLog :
         /\ probeLog[i].model = model_candidates[i]
         /\ i < Len(probeLog) => probeLog[i].outcome \in SoftOutcomes
         /\ (i = Len(probeLog) /\ probeLog[i].outcome \in SoftOutcomes) =>
              /\ ~_initialized /\ _model_name = None /\ ~api_key_leaked
              /\ IF i < Len(model_candidates)
                 THEN ipc = "probing" /\ probeIdx = i + 1
                 ELSE ipc = "done"
    /\ _initialized <=>
         \E i \in DOMAIN probeLog : probeLog[i].outcome = "ok"
    /\ _initialized =>
         /\ ipc = "done"
         /\ _model_name = probeLog[Len(probeLog)].model
    /\ ~_initialized => _model_name = None

\* C7, its case: the third candidate is selected after a quota failure and an
\* empty response.
ProbingStopsAtFirstSuccessWitness ==
    /\ ipc = "done"
    /\ _initialized
    /\ _model_name = model_candidates[3]
    /\ Len(probeLog) = 3
    /\ probeLog[1].outcome = "quota"
    /\ probeLog[2].outcome = "empty"

\* C8: a hard authorization failure on a probed candidate ends probing at
\* once: it is the last probe made, and construction is over with the
\* orchestrator uninitialized and no model selected.
HardAuthHaltsProbing ==
    \A i \in DOMAIN probeLog :
        probeLog[i].outcome = "auth" =>
            /\ i = Len(probeLog)
            /\ ipc = "done"
            /\ api_key_leaked
            /\ ~_initialized
            /\ _model_name = None
            /\ client # None

\* C8, its case: the key is found blocked on the second candidate, with five
\* candidates left untried.
HardAuthHaltsProbingWitness ==
    /\ ipc = "done"
    /\ Len(probeLog) = 2
    /\ probeLog[1].outcome = "unavailable"
    /\ probeLog[2].outcome = "auth"
    /\ probeLog[2].model = model_candidates[2]

\* C9: in the OCR batch every image of the capped list is handed to the OCR
\* exactly once, in list order, whatever failed on earlier images, and no
\* exception leaves _process_images.
OcrBatchSkipsFailures ==
    req.op = "product" =>
        /\ ~req.raised
        /\ Len(req.ocrLog) <= Len(req.image_urls)
        /\ req.ocrLog = SubSeq(req.image_urls, 1, Len(req.ocrLog))
        /\ req.pc = "ocr" =>
             Len(req.ocrLog) = req.idx + (IF req.attempt = 0 THEN 0 ELSE 1)
        /\ (req.pc = "done" /\ ~Uninitialized) =>
             req.ocrLog =
                 Take(_prioritize_high_res_images(req.product_data.detail_images),
                      req.max_ocr)

\* C9, its case: the first of two images failed (it left no entry), the second
\* one was read and translated.
OcrBatchSkipsFailuresWitness ==
    /\ req.op = "product"
    /\ req.pc = "done"
    /\ Len(req.ocrLog) = 2
    /\ Len(req.returned.translated_image_texts) = 1
    /\ req.returned.translated_image_texts[1].order_index = 1

\* C10: every ImageText of translate_product carries as order_index the
\* position of its image in the record's image list,
\* original.detail_images[e.order_index] == e.image_url (Python counts from 0),
\* and the entries come in ascending order_index.
OrderIndexIsPagePosition ==
    (req.op = "product" /\ req.pc = "done") =>
        LET out == req.returned.translated_image_texts
            images == req.returned.original.detail_images
        IN  /\ \A k \in DOMAIN out :
                 /\ out[k].order_index + 1 \in DOMAIN images
                 /\ images[out[k].order_index + 1] = out[k].image_url
            /\ \A k \in DOMAIN out :
                 k > 1 => out[k - 1].order_index < out[k].order_index


\* The most passes one text can take (one model call each), and one image
\* (its OCR passes, then the passes of its text).
TextPasses == _max_retries
ImagePasses == _max_retries + TextPasses

RECURSIVE OptionTexts(_, _)
\* The texts of options[k + 1 ..]: per option its name and its values.
OptionTexts(options, k) ==
    IF k >= Len(options) THEN 0
    ELSE 1 + Len(options[k + 1].values) + OptionTexts(options, k + 1)

ImageCount(r) ==
    Len(Take(_prioritize_high_res_images(r.product_data.detail_images), r.max_ocr))

\* The passes a request at position r can still make before it returns.
PassesLeft(r) ==
    LET options == r.product_data.options
        images == ImagePasses * ImageCount(r)
        own == _max_retries - r.attempt
    IN  CASE r.pc = "text" /\ r.phase = "single" -> own
          [] r.pc = "text" /\ r.phase = "title" ->
               own + TextPasses * (1 + OptionTexts(options, 0)) + images
          [] r.pc = "text" /\ r.phase = "description" ->
               own + TextPasses * OptionTexts(options, 0) + images
          [] r.pc = "text" /\ r.phase = "option" ->
               own + TextPasses * (Len(options[r.optIdx].values) - r.valIdx
                                   + OptionTexts(options, r.optIdx)) + images
          [] r.pc = "text" /\ r.phase = "ocr" ->
               own + ImagePasses * (Len(r.image_urls) - r.idx - 1)
          [] r.pc = "ocr" ->
               own + TextPasses + ImagePasses * (Len(r.image_urls) - r.idx - 1)
          [] OTHER -> 0

\* C11: translate_product always comes to an end and never raises, whatever
\* the model and the image fetches answer: it starts with a bounded number of
\* passes ahead (one external call each, at most), every step of a running
\* request uses up at least one of them, the guard of the next step of a running
\* request holds, and what it ends with is the TranslatedProduct of its record.
TranslateProductTerminates ==
    /\ [](req.op = "product" =>
            /\ ~req.raised
            /\ PassesLeft(req) <=
                 TextPasses * (2 + OptionTexts(req.product_data.options, 0))
                   + ImagePasses * Len(req.product_data.detail_images)
            /\ req.pc = "text" => (Skip(req.text) \/ req.attempt < _max_retries)
            /\ req.pc = "ocr" =>
                 (req.attempt < _max_retries /\ req.idx < Len(req.image_urls))
            /\ req.pc = "done" =>
                 /\ req.returned.original = req.product_data
                 /\ req.returned.target_language = req.target_language)
    /\ [][(req.op = "product" /\ req.pc # "done") =>
            PassesLeft(req') < PassesLeft(req)]_vars

\* C11, its case: the title was translated, then both images of the record
\* were tried and neither left an entry (the last call ended in an error); the
\* request returned its record.
TranslateProductTerminatesWitness ==
    /\ req.op = "product"
    /\ req.pc = "done"
    /\ ~req.raised
    /\ req.returned.translated_title = <<"b">>
    /\ Len(req.ocrLog) = 2
    /\ req.returned.translated_image_texts = <<>>
    /\ req.callLog = <<"error">>

\* C12: in every record of scrape_product the title, the artist name, the
\* price and the description are non-empty strings, and a field whose
\* extraction raised or found nothing holds its sentinel.
FieldsNeverEmpty ==
    scr.pc \notin {"idle", "stealth", "goto", "fields", "raised"} =>
        /\ \A v \in {scr.title, scr.artist_name, scr.price, scr.description} :
             v # None /\ Len(v) >= 1
        /\ scr.raw.title.kind # "value" => scr.title = <<NO_TITLE>>
        /\ (\A i \in DOMAIN scr.raw.title.text :
               scr.raw.title.text[i] \in {" ", SITE_SUFFIX}) =>
             scr.title = <<NO_TITLE>>
        /\ scr.raw.artist.kind # "value" => scr.artist_name = <<NO_ARTIST>>
        /\ scr.raw.price.kind # "value" => scr.price = <<NO_PRICE>>
        /\ scr.raw.description.kind # "value" =>
             scr.description = <<NO_DESCRIPTION>>

\* C12, its case: page.title() raised and the price script found nothing; the
\* record came back with both sentinels.
FieldsNeverEmptyWitness ==
    /\ scr.pc = "returned"
    /\ scr.raw.title = Raised
    /\ scr.raw.price = Null
    /\ scr.title = <<NO_TITLE>>
    /\ scr.price = <<NO_PRICE>>

\* The size a URL counts with: the declared one, the original's without one.
DeclaredSize(u) == IF u.size # 0 THEN u.size ELSE OriginalSize

\* C13: of the candidates that share a file id only the one of maximum size
\* is in the image list, on the position path and on the fallback path: no
\* two entries share a file id, and no candidate of an entry's file id is
\* larger than the entry.
MaxSizeVariantSurvives ==
    scr.pc = "returned" =>
        /\ \A i, j \in DOMAIN scr.detail_images :
             (scr.detail_images[i].id # 0
                /\ scr.detail_images[i].id = scr.detail_images[j].id) => i = j
        /\ \A i \in DOMAIN scr.detail_images, k \in DOMAIN scr.candidates :
             (scr.detail_images[i].id # 0
                /\ scr.candidates[k].id = scr.detail_images[i].id
                /\ scr.candidates[k].mark = "") =>
               DeclaredSize(scr.candidates[k]) <= DeclaredSize(scr.detail_images[i])

\* C14: canonicalization is idempotent and order-stable: the filter of a run
\* maps the run's image list to itself, and two runs on the same path over the
\* same candidate set give the same list.
CanonicalizationStable ==
    scr.pc = "returned" =>
        /\ scr.path = "position" => _filter_images(scr.detail_images) = scr.detail_images
        /\ scr.path = "fallback" =>
             _filter_images_strict(scr.detail_images) = scr.detail_images
        /\ \A r \in DOMAIN scr.outputs :
             (scr.outputs[r].path = scr.path
                /\ Range(scr.outputs[r].candidates) = Range(scr.candidates)) =>
               scr.outputs[r].detail_images = scr.detail_images

\* Where an entry's asset is first observed in the candidate list: the first
\* candidate of its file id, or the URL itself without one.
FirstObserved(candidates, u) ==
    CHOOSE k \in DOMAIN candidates :
        /\ IF u.id # 0 THEN candidates[k].id = u.id ELSE candidates[k] = u
        /\ \A j \in 1 .. k - 1 :
             ~(IF u.id # 0 THEN candidates[j].id = u.id ELSE candidates[j] = u)

\* C15: on the position path the image list is in the order in which the
\* assets are first observed in the position-sorted candidate list.
OrderFollowsFirstObserved ==
    (scr.pc = "returned" /\ scr.path = "position") =>
        \A i, j \in DOMAIN scr.detail_images :
            i < j => FirstObserved(scr.candidates, scr.detail_images[i])
                       < FirstObserved(scr.candidates, scr.detail_images[j])

\* A CDN URL with a file id that none of the exclusion filters of either path
\* drops.
PassesExclusion(u) ==
    /\ u.host = IMAGE_CDN
    /\ u.id # 0
    /\ u.mark = ""
    /\ (u.size = 0 \/ u.size >= StrictMinSize)

\* C16: the image list is the union of the capture channels: a URL of any
\* channel (the img elements scanned, network, markup, background images)
\* that passes the exclusion filters has its asset in the list, unless the
\* list is full.
ChannelsAreUnioned ==
    scr.pc = "returned" =>
        \A u \in Range(scr.positioned) \cup page.network \cup page.markup
                  \cup page.background :
            PassesExclusion(u) =>
                \/ \E i \in DOMAIN scr.detail_images : scr.detail_images[i].id = u.id
                \/ Len(scr.detail_images) >= FilterCap

\* C17: a candidate without file id and without exclusion pattern is in the
\* image list exactly once, on the position path and on the fallback path
\* (unless the list is full).
UnidentifiedUrlsAreKept ==
    scr.pc = "returned" =>
        \A k \in DOMAIN scr.candidates :
            (scr.candidates[k].id = 0 /\ scr.candidates[k].mark = ""
               /\ scr.candidates[k].size = 0) =>
              \/ Cardinality({i \in DOMAIN scr.detail_images :
                                scr.detail_images[i] = scr.candidates[k]}) = 1
              \/ Len(scr.detail_images) >= FilterCap

\* C18: the image list is capped, at 15 on the position path and at 20 on the
\* fallback path, and it is the head of the deduplicated list.
ImageListIsCapped ==
    scr.pc \in {"return", "returned"} =>
        LET deduplicated ==
                IF scr.path = "position"
                THEN FilterLoop([result |-> <<>>, seen_urls |-> {},
                                 seen_file_ids |-> <<>>], scr.candidates).result
                ELSE StrictLoop([result |-> <<>>, seen_file_ids |-> {}],
                                scr.candidates).result
            cap == IF scr.path = "position" THEN FilterCap ELSE StrictCap
        IN  /\ Len(scr.detail_images) <= cap
            /\ Len(scr.detail_images) <= Len(deduplicated)
            /\ scr.detail_images = SubSeq(deduplicated, 1, Len(scr.detail_images))
            /\ Len(scr.detail_images) < cap => scr.detail_images = deduplicated

\* C18, its case: more than 15 assets in the detail area, 15 in the list.
ImageListIsCappedWitness ==
    /\ scr.pc = "returned"
    /\ scr.path = "position"
    /\ Len(scr.candidates) > FilterCap
    /\ Len(scr.detail_images) = FilterCap

\* C19: every option group has values, each one non-empty and trimmed, no two
\* equal, in the order in which they are first seen among the harvested items;
\* the items "Red", "Red", " ", "Blue" give exactly "Red", "Blue".
OptionValuesCanonical ==
    /\ \A g \in DOMAIN scr.options :
         LET values == scr.options[g].values
         IN  /\ values # <<>>
             /\ \A i \in DOMAIN values : values[i] # <<>> /\ Strip(values[i]) = values[i]
             /\ \A i, j \in DOMAIN values : values[i] = values[j] => i = j
    /\ scr.options # <<>> =>
         LET values == scr.options[Len(scr.options)].values
             cleaned == [k \in DOMAIN scr.harvest |-> CleanValue(scr.harvest[k])]
             FirstSeen(v) == CHOOSE k \in DOMAIN cleaned :
                                 cleaned[k] = v /\ \A j \in 1 .. k - 1 : cleaned[j] # v
         IN  /\ \A i \in DOMAIN values : values[i] \in Range(cleaned)
             /\ \A i, j \in DOMAIN values :
                  i < j => FirstSeen(values[i]) < FirstSeen(values[j])
             /\ scr.harvest = << <<"R">>, <<"R">>, <<" ">>, <<"B">> >> =>
                  values = << <<"R">>, <<"B">> >>

\* C19, its case: the items "R", "R", " ", "B" were harvested under the first
\* header, and the group holds "R", "B".
OptionValuesCanonicalWitness ==
    /\ scr.harvest = << <<"R">>, <<"R">>, <<" ">>, <<"B">> >>
    /\ scr.option_clicked
    /\ scr.options = <<ProductOption(GroupName(1), << <<"R">>, <<"B">> >>)>>

\* C20: once the option trigger has been clicked, _get_options does not return
\* without the Escape key press.
PanelAlwaysDismissed ==
    (scr.pc = "scroll" /\ scr.option_clicked) => scr.dismissed

NavigatesOnlyToTargetDomain ==
    /\ \A i \in DOMAIN api.navigated : HasTargetDomain(api.navigated[i])
    /\ (api.pc = "responded"
          /\ api.endpoint \in {"scrape", "debug", "scrape_and_translate"}
          /\ ~HasTargetDomain(api.url)) =>
         (~api.response.success /\ api.navigated = <<>>)
    /\ \A i \in DOMAIN api.results :
         ~HasTargetDomain(api.results[i].url) => ~api.results[i].success

\* C23: the title, the artist name and the price of the record are the
\* payload's value when the payload exposes a non-empty one, else what the
\* DOM heuristic gives, else the sentinel.
StructuredDataWins ==
    scr.pc \notin {"idle", "stealth", "goto", "fields", "raised"} =>
        /\ scr.title = IF scr.payload.title # <<>> THEN scr.payload.title
                       ELSE _get_title(scr.raw.title)
        /\ scr.artist_name = IF scr.payload.artist_name # <<>>
                             THEN scr.payload.artist_name
                             ELSE _get_artist(scr.raw.artist)
        /\ scr.price = IF scr.payload.price # <<>> THEN scr.payload.price
                       ELSE _get_price(scr.raw.price)

\* C24: when close() has returned it has called the close of the context,
\* the close of the browser and the stop of the driver exactly once each,
\* whichever of them raised; it has not raised; _initialized is false.
\* Before that no step has been taken twice.
CloseStepsIndependent ==
    svc.scraper # 0 =>
        LET s == svc.inst[svc.scraper]
        IN  /\ \A h \in Handles : s.closes[h] <= 1
            /\ svc.shut = "stopped" =>
                 /\ \A h \in Handles : s.held[h] /\ s.closes[h] = 1
                 /\ ~svc.close_raised
                 /\ ~s._initialized

\* C24, its case: the close of the context and the close of the browser both
\* raised, and the driver was stopped all the same.
CloseStepsIndependentWitness ==
    /\ svc.shut = "stopped"
    /\ svc.scraper # 0
    /\ svc.inst[svc.scraper].failed = {"context", "browser"}
    /\ svc.inst[svc.scraper].closes["playwright"] = 1
    /\ ~svc.inst[svc.scraper]._initialized

\* C25: the groups of the list are in the order of their numbers; whenever
\* _get_options is about to harvest a group, the first value of every group
\* harvested before it has been clicked; and no value of the last group is
\* ever clicked.
GroupsAdvanceByFirstValue ==
    /\ \A i, j \in DOMAIN scr.options :
         i < j => Len(scr.options[i].name) < Len(scr.options[j].name)
    /\ \A k \in DOMAIN scr.clicks : scr.clicks[k].group < scr.total_groups
    /\ scr.pc = "opt_group" =>
         \A i \in DOMAIN scr.options :
            \E k \in DOMAIN scr.clicks :
               /\ scr.clicks[k].group = Len(scr.options[i].name)
               /\ scr.clicks[k].value = scr.options[i].values[1]

\* C26: _full_scroll moves in steps of 400 pixels and every pass of its loop
\* brings it nearer to the end of the loop, so that the passes are bounded
\* however the page grows.
FullScrollHalts ==
    [][(scrl.pc = "loop" /\ scrl'.pc = "loop") =>
          /\ scrl'.current = scrl.current + ScrollStep
          /\ scrl'.total - scrl'.current < scrl.total - scrl.current]_vars

\* C27: at most one ProductTranslator is constructed and at most one browser
\* launched, however the first requests interleave, and once the shutdown is
\* through every browser launched has been closed.
ServicesAcquiredOnce ==
    /\ svc.translators <= 1
    /\ Cardinality({r \in Requests : svc.inst[r].held["browser"]}) <= 1
    /\ svc.shut = "stopped" =>
         \A r \in Requests :
            svc.inst[r].held["browser"] => svc.inst[r].closes["browser"] = 1

\* C28: when scrape_product has returned or raised, the page it opened, if
\* any, has had its close called.
PageNeverOutlivesRequest ==
    (scr.pc \in {"returned", "raised"} /\ scr.opened) => scr.closed

\* C29: the counts of a batch response agree with its results: total_count
\* is success_count + failed_count and the number of results, at most 10,
\* and the i-th result is that of the i-th URL of the request.
BatchCountsConsistent ==
    (api.pc = "responded" /\ api.endpoint = "batch") =>
        LET r == api.response
        IN  /\ r.total_count = r.success_count + r.failed_count
            /\ r.total_count = Len(r.results)
            /\ r.total_count <= MAX_BATCH_SIZE
            /\ \A i \in DOMAIN r.results : r.results[i].url = api.request_urls[i]

\* The texts C30 is about: empty, blanks only, or one of the four sentinels.
BlankOrPlaceholder(t) ==
    \/ \A i \in DOMAIN t : t[i] = " "
    \/ t \in {<<NO_TITLE>>, <<NO_DESCRIPTION>>, <<NO_PRICE>>, <<NO_ARTIST>>}

\* C30: a step of _translate_text_with_retry on an empty or blank text or on
\* a sentinel returns the text as it is, makes no model call, does not wait
\* on the rate limiter and leaves _last_request_time alone.
PlaceholdersNeverSent ==
    [][(req.pc = "text" /\ BlankOrPlaceholder(req.text)) =>
          /\ req'.pc = "done"
          /\ req'.returned = req.text
          /\ req'.callLog = req.callLog
          /\ req'.waited = req.waited
          /\ req'.sinceCall = req.sinceCall
          /\ elapsed' = elapsed]_vars

\* C30, its case: the price sentinel came back without a call or a wait.
PlaceholdersNeverSentWitness ==
    /\ req.pc = "done"
    /\ req.op = "single"
    /\ req.text = <<NO_PRICE>>
    /\ req.returned = <<NO_PRICE>>
    /\ req.callLog = <<>>
    /\ ~req.waited

====
